---- MODULE Spec2Model ----
(***************************************************************************)
(* A model of skillsmd: the lock store (skill_lock.py) and the provider    *)
(* registry with its host providers (providers/).                          *)
(*                                                                         *)
(* Python values are modelled as follows.                                  *)
(*   - str            : a TLA+ string                                      *)
(*   - Optional[x]    : None is <<>>, a present value x is <<x>>           *)
(*   - a JSON document: a tagged record [t |-> type, v |-> value]          *)
(*   - dict           : a function whose DOMAIN is the set of keys         *)
(***************************************************************************)
EXTENDS Integers, Sequences, FiniteSets, TLC

VARIABLES
    file,       \* content of ~/.agents/.skill-lock.json
    clock,      \* number of lock-store calls made so far (drives datetime.now())
    last,       \* the last lock-store call: its arguments, the file before it, its outcome
    procs,      \* concurrent CLI invocations: where each is in its lock-store call
    log,        \* the reads and writes of the lock file by those invocations, in order
    file0,      \* the lock file before the concurrent invocations started
    lastMatch,  \* the last provider.match(url) call and what it returned
    registry,   \* ProviderRegistry._providers: the registered providers, in order
    regLog,     \* the providers passed to register() on that registry, in call order
    lastFetch,  \* the last fetch call: its URL, the server's answers, its outcome
    lastCall,   \* the calls of one other function: its inputs and outputs, in order
    fs          \* the skill directories on disk: what is at each path

vars == <<file, clock, last, procs, log, file0, lastMatch, registry, regLog, lastFetch,
          lastCall, fs>>
lockVars == <<file, clock, last>>
concVars == <<procs, log, file0>>
fetchVars == <<registry, regLog, lastFetch>>
callVars == <<lastCall, fs>>
provVars == <<lastMatch, fetchVars, callVars>>
\* what the lock-store calls of a single invocation leave alone
nonLockVars == <<concVars, provVars>>

(***************************************************************************)
(* Bounds                                                                  *)
(***************************************************************************)
MaxClock == 2       \* lock-store calls per behaviour
MaxSkills == 2      \* distinct skill names
MaxSegs == 4        \* path segments of a URL
MaxPathTokens == 4  \* pieces of a skill path
MaxRuns == 3        \* runs of one character in a name
MaxInstalls == 2    \* install_skill_for_agent calls per behaviour
MaxSourceTokens == 7 \* tokens of a source string
MaxUrlSegs == 6      \* path segments of a github.com or gitlab.com URL
MaxNested == 3       \* skill documents below the root directory
MaxNames == 2        \* skills, and names asked for, of a filter_skills call
MaxRegs == 3        \* register() calls on one registry
MaxUpdates == 3     \* updates the service reports in one answer

(***************************************************************************)
(* Python Optional and truthiness                                          *)
(***************************************************************************)
None == <<>>
Some(x) == <<x>>
\* bool(x) of an Optional[str]: None and '' are falsy
TruthyStr(o) == o # None /\ o[1] # ""
\* bool(x) of an Optional[list]: None and [] are falsy
TruthyList(o) == o # None /\ Len(o[1]) > 0

\* the calls made of the function fn: the inputs given and, for each, the
\* exception raised ("none" when none) and the value returned
Calls(fn, args, excs, outs) == [fn |-> fn, args |-> args, excs |-> excs, outs |-> outs]
NoCall == Calls("none", <<>>, <<>>, <<>>)
\* no skill directory has been looked at
NoDisk == <<>>
CallIdle == lastCall = NoCall /\ fs = NoDisk
\* one more call of the same function
ThenCall(calls, fn, arg, exc, out) ==
    Calls(fn, Append(calls.args, arg), Append(calls.excs, exc), Append(calls.outs, out))

(***************************************************************************)
(* JSON values                                                             *)
(***************************************************************************)
JNull == [t |-> "null", v |-> 0]
JInt(n) == [t |-> "int", v |-> n]
JStr(s) == [t |-> "str", v |-> s]
JBool(b) == [t |-> "bool", v |-> b]
JArr(s) == [t |-> "array", v |-> s]
JObj(f) == [t |-> "object", v |-> f]

EmptyDict == [k \in {} |-> JNull]

\* dict.get(key, default)
Get(d, k, default) == IF k \in DOMAIN d THEN d[k] ELSE default

\* isinstance(x, int): bool is a subclass of int in Python
IsInstanceInt(j) == j.t \in {"int", "bool"}
IntValue(j) == IF j.t = "bool" THEN (IF j.v THEN 1 ELSE 0) ELSE j.v

(***************************************************************************)
(* skill_lock.py                                                           *)
(***************************************************************************)
CURRENT_VERSION == 3

DismissedPrompts(fsp) == [find_skills_prompt |-> fsp]

SkillLockFile(ver, sk, dis, lsa) ==
    [version |-> ver, skills |-> sk, dismissed |-> dis, last_selected_agents |-> lsa]

\* _create_empty_lock_file(): SkillLockFile() with the dataclass defaults
CreateEmptyLockFile ==
    SkillLockFile(CURRENT_VERSION, EmptyDict, DismissedPrompts(FALSE), None)

\* (mutant) the skillPath key never written
LockEntryToDict_NoSkillPath(entry) ==
    [source |-> JStr(entry.source),
     sourceType |-> JStr(entry.source_type),
     sourceUrl |-> JStr(entry.source_url),
     skillFolderHash |-> JStr(entry.skill_folder_hash),
     installedAt |-> JStr(entry.installed_at),
     updatedAt |-> JStr(entry.updated_at)]

\* _lock_entry_to_dict
LockEntryToDict(entry) ==
    LET result == [source |-> JStr(entry.source),
                   sourceType |-> JStr(entry.source_type),
                   sourceUrl |-> JStr(entry.source_url),
                   skillFolderHash |-> JStr(entry.skill_folder_hash),
                   installedAt |-> JStr(entry.installed_at),
                   updatedAt |-> JStr(entry.updated_at)]
    IN  IF TruthyStr(entry.skill_path)
        THEN ("skillPath" :> JStr(entry.skill_path[1])) @@ result
        ELSE result

\* _dict_to_lock_entry (data is the dict of an entry; the values are strings)
DictToLockEntry(data) ==
    [source |-> Get(data, "source", JStr("")).v,
     source_type |-> Get(data, "sourceType", JStr("")).v,
     source_url |-> Get(data, "sourceUrl", JStr("")).v,
     skill_folder_hash |-> Get(data, "skillFolderHash", JStr("")).v,
     installed_at |-> Get(data, "installedAt", JStr("")).v,
     updated_at |-> Get(data, "updatedAt", JStr("")).v,
     skill_path |-> IF "skillPath" \in DOMAIN data
                    THEN Some(data["skillPath"].v) ELSE None]

\* `if lock.dismissed:` tests a dataclass instance, which is always truthy
DismissedIsTruthy(dis) == TRUE

\* _lock_file_to_dict
LockFileToDict(lock) ==
    LET result == [version |-> JInt(lock.version),
                   skills |-> JObj([n \in DOMAIN lock.skills |->
                                       JObj(LockEntryToDict(lock.skills[n]))])]
        withDis == IF DismissedIsTruthy(lock.dismissed)
                   THEN ("dismissed" :> JObj([findSkillsPrompt |->
                              JBool(lock.dismissed.find_skills_prompt)])) @@ result
                   ELSE result
    IN  IF TruthyList(lock.last_selected_agents)
        THEN ("lastSelectedAgents" :> JArr(lock.last_selected_agents[1])) @@ withDis
        ELSE withDis

\* The outcome of a call: exc is the exception that escaped ("none" when it
\* returned), lock the value returned.
Returned(lock) == [exc |-> "none", lock |-> lock]
Raised(e) == [exc |-> e, lock |-> CreateEmptyLockFile]

\* _dict_to_lock_file (data is the top-level dict).  x.items() and x.get()
\* raise AttributeError on anything that is not a dict.
DictToLockFile(data) ==
    LET skillsVal == Get(data, "skills", JObj(EmptyDict))
        dismissedData == Get(data, "dismissed", JObj(EmptyDict))
    IN  IF skillsVal.t # "object" THEN Raised("AttributeError")
        ELSE IF \E n \in DOMAIN skillsVal.v : skillsVal.v[n].t # "object"
             THEN Raised("AttributeError")
        ELSE IF dismissedData.t # "object" THEN Raised("AttributeError")
        ELSE Returned(SkillLockFile(
                IntValue(Get(data, "version", JInt(CURRENT_VERSION))),
                [n \in DOMAIN skillsVal.v |-> DictToLockEntry(skillsVal.v[n].v)],
                DismissedPrompts(Get(dismissedData.v, "findSkillsPrompt", JBool(FALSE)).v),
                IF "lastSelectedAgents" \in DOMAIN data
                THEN Some(data["lastSelectedAgents"].v) ELSE None))

\* (mutant) the version test off by one: a version 2 file is read, not wiped
VersionIsOld_OffByOne(version) == version < CURRENT_VERSION - 1

\* The version test of read_skill_lock: true when the file is wiped
VersionIsOld(version) == version < CURRENT_VERSION

\* The states of the lock file on disk
FileMissing == [kind |-> "missing", data |-> JNull]        \* FileNotFoundError
FileUnreadable == [kind |-> "unreadable", data |-> JNull]  \* another OSError
FileBadUtf8 == [kind |-> "badutf8", data |-> JNull]        \* UnicodeDecodeError
FileBadJson == [kind |-> "badjson", data |-> JNull]        \* json.JSONDecodeError
FileJson(j) == [kind |-> "json", data |-> j]

\* The exceptions read_skill_lock catches
ReadCatches == {"FileNotFoundError", "JSONDecodeError", "OSError"}

\* lock_path.read_text(encoding='utf-8') followed by json.loads(content):
\* the exception raised, or "none"
LoadError(f) ==
    CASE f.kind = "missing" -> "FileNotFoundError"
      [] f.kind = "unreadable" -> "OSError"
      [] f.kind = "badutf8" -> "UnicodeDecodeError"
      [] f.kind = "badjson" -> "JSONDecodeError"
      [] OTHER -> "none"

\* read_skill_lock
ReadSkillLock(f) ==
    LET err == LoadError(f)
        data == f.data
    IN  IF err # "none"
        THEN (IF err \in ReadCatches THEN Returned(CreateEmptyLockFile) ELSE Raised(err))
        ELSE IF data.t # "object" THEN Raised("AttributeError")   \* data.get
        ELSE IF ~IsInstanceInt(Get(data.v, "version", JNull)) \/ "skills" \notin DOMAIN data.v
             THEN Returned(CreateEmptyLockFile)
        ELSE IF VersionIsOld(IntValue(data.v["version"]))
             THEN Returned(CreateEmptyLockFile)
        ELSE DictToLockFile(data.v)

\* write_skill_lock: the document that replaces the file
WriteSkillLock(lock) == FileJson(JObj(LockFileToDict(lock)))

\* mkdir / write_text can fail with OSError where the path could not be read
WriteOutcomes(f) == IF f.kind = "unreadable" THEN {"none", "OSError"} ELSE {"none"}

\* datetime.now().isoformat() at the c-th call
Now(c) == "T" \o ToString(c)

\* (mutant) the entry stored with installed_at reset on every call
NewEntry_ResetsInstalledAt(lock, skill_name, a, now) ==
    [source |-> a.source,
     source_type |-> a.source_type,
     source_url |-> a.source_url,
     skill_folder_hash |-> a.skill_folder_hash,
     installed_at |-> now,
     updated_at |-> now,
     skill_path |-> a.skill_path]

\* The entry add_skill_to_lock stores
NewEntry(lock, skill_name, a, now) ==
    [source |-> a.source,
     source_type |-> a.source_type,
     source_url |-> a.source_url,
     skill_folder_hash |-> a.skill_folder_hash,
     installed_at |-> IF skill_name \in DOMAIN lock.skills
                      THEN lock.skills[skill_name].installed_at ELSE now,
     updated_at |-> now,
     skill_path |-> a.skill_path]

(***************************************************************************)
(* Inputs                                                                  *)
(***************************************************************************)
SkillName(i) == "skill-" \o ToString(i)
SkillNames == {SkillName(i) : i \in 1..MaxSkills}

NoArgs == [source |-> "", source_type |-> "", source_url |-> "",
           skill_folder_hash |-> "", skill_path |-> None]

\* Arguments of add_skill_to_lock
AddArgs ==
    {[source |-> "owner/repo", source_type |-> "github",
      source_url |-> "https://github.com/owner/repo.git",
      skill_folder_hash |-> "sha-1", skill_path |-> Some("skills/x/SKILL.md")],
     [source |-> "mintlify/docs.example.com", source_type |-> "mintlify",
      source_url |-> "https://docs.example.com/skill.md",
      skill_folder_hash |-> "", skill_path |-> None],
     [source |-> "owner/root", source_type |-> "github",
      source_url |-> "https://github.com/owner/root.git",
      skill_folder_hash |-> "sha-2", skill_path |-> Some("")]}

AgentLists == {<<>>, <<"claude-code">>}

\* Entries found in a lock file at start
EntryFull ==
    JObj([source |-> JStr("old/repo"), sourceType |-> JStr("github"),
          sourceUrl |-> JStr("https://github.com/old/repo.git"),
          skillFolderHash |-> JStr("sha-0"), installedAt |-> JStr("T0"),
          updatedAt |-> JStr("T0"), skillPath |-> JStr("skills/old/SKILL.md")])
EntryNoPath ==
    JObj([source |-> JStr("old/site"), sourceType |-> JStr("well-known"),
          sourceUrl |-> JStr("https://old.example.com"),
          skillFolderHash |-> JStr(""), installedAt |-> JStr("T0"),
          updatedAt |-> JStr("T0")])
EntryNotObject == JStr("oops")

InitEntries == {EntryFull, EntryNoPath, EntryNotObject}

InitSkillsValues ==
    {JArr(<<>>)} \cup
    {JObj(m) : m \in UNION {[S -> InitEntries] : S \in SUBSET SkillNames}}

InitVersions == {JStr("3"), JBool(TRUE), JInt(2), JInt(3), JInt(4)}
InitDismissed == {JObj([findSkillsPrompt |-> JBool(TRUE)]), JBool(TRUE)}
InitAgents == {JArr(<<"cursor">>)}

\* a dict from the keys for which a value was chosen
WithKey(d, k, choice) == IF choice = None THEN d ELSE (k :> choice[1]) @@ d
Opt(S) == {None} \cup {Some(x) : x \in S}

InitObjects ==
    {WithKey(WithKey(WithKey(WithKey(EmptyDict, "version", ver), "skills", sk),
                     "dismissed", dis), "lastSelectedAgents", lsa) :
        ver \in Opt(InitVersions), sk \in Opt(InitSkillsValues),
        dis \in Opt(InitDismissed), lsa \in Opt(InitAgents)}

InitFiles ==
    {FileMissing, FileUnreadable, FileBadUtf8, FileBadJson, FileJson(JArr(<<>>))}
    \cup {FileJson(JObj(o)) : o \in InitObjects}

(***************************************************************************)
(* Lock-store calls, one action per public function                        *)
(***************************************************************************)
Call(op, name, a, agents, pre, exc, ret, wrote, lock, now) ==
    [op |-> op,         \* the function called
     name |-> name,     \* its skill_name or prompt_key
     args |-> a,        \* the other arguments of add_skill_to_lock
     agents |-> agents, \* the argument of save_selected_agents
     pre |-> pre,       \* the file before the call
     exc |-> exc,       \* the exception that escaped the call, or "none"
     ret |-> ret,       \* the value remove_skill_from_lock returned
     wrote |-> wrote,   \* whether the call rewrote the file
     lock |-> lock,     \* the lock read_skill_lock returned inside the call
     now |-> now]       \* datetime.now() during the call

LockInit ==
    /\ file \in InitFiles
    /\ clock = 0
    /\ last = Call("none", "", NoArgs, <<>>, FileMissing, "none", FALSE, FALSE,
                   CreateEmptyLockFile, "")

\* read, change in memory, rewrite: the common body of the mutating calls.
\* changed is the lock to write, made from the lock read.
Mutate(op, name, a, agents, changed) ==
    LET r == ReadSkillLock(file)
        now == Now(clock + 1)
    IN  /\ clock' = clock + 1
        /\ UNCHANGED nonLockVars
        /\ IF r.exc # "none"
           THEN /\ file' = file
                /\ last' = Call(op, name, a, agents, file, r.exc, FALSE, FALSE, r.lock, now)
           ELSE \E w \in WriteOutcomes(file) :
                /\ file' = IF w = "none" THEN WriteSkillLock(changed) ELSE file
                /\ last' = Call(op, name, a, agents, file, w, w = "none", w = "none",
                                r.lock, now)

\* read_skill_lock()
Read ==
    LET r == ReadSkillLock(file)
    IN  /\ clock < MaxClock
        /\ clock' = clock + 1
        /\ file' = file
        /\ last' = Call("read", "", NoArgs, <<>>, file, r.exc, FALSE, FALSE, r.lock,
                        Now(clock + 1))
        /\ UNCHANGED nonLockVars

\* add_skill_to_lock(skill_name, source, source_type, source_url, skill_folder_hash, skill_path)
AddSkillToLock(skill_name, a) ==
    LET Change(lock) ==
            [lock EXCEPT !.skills =
                (skill_name :> NewEntry(lock, skill_name, a, Now(clock + 1))) @@ lock.skills]
    IN  /\ clock < MaxClock
        /\ Mutate("add", skill_name, a, <<>>, Change(ReadSkillLock(file).lock))

\* remove_skill_from_lock(skill_name)
RemoveSkillFromLock(skill_name) ==
    LET r == ReadSkillLock(file)
        Change(lock) ==
            [lock EXCEPT !.skills = [n \in DOMAIN lock.skills \ {skill_name} |-> lock.skills[n]]]
    IN  /\ clock < MaxClock
        /\ IF r.exc = "none" /\ skill_name \notin DOMAIN r.lock.skills
           THEN /\ clock' = clock + 1
                /\ UNCHANGED nonLockVars
                /\ file' = file
                /\ last' = Call("remove", skill_name, NoArgs, <<>>, file, "none", FALSE,
                                FALSE, r.lock, Now(clock + 1))
           ELSE Mutate("remove", skill_name, NoArgs, <<>>, Change(r.lock))

\* dismiss_prompt(prompt_key)
DismissPrompt(prompt_key) ==
    LET Change(lock) ==
            IF prompt_key = "find_skills_prompt"
            THEN [lock EXCEPT !.dismissed.find_skills_prompt = TRUE]
            ELSE lock
    IN  /\ clock < MaxClock
        /\ Mutate("dismiss", prompt_key, NoArgs, <<>>,
                  Change(ReadSkillLock(file).lock))

\* save_selected_agents(agents)
SaveSelectedAgents(agents) ==
    LET Change(lock) == [lock EXCEPT !.last_selected_agents = Some(agents)]
    IN  /\ clock < MaxClock
        /\ Mutate("save", "", NoArgs, agents, Change(ReadSkillLock(file).lock))

LockNext ==
    \/ Read
    \/ \E n \in SkillNames, a \in AddArgs : AddSkillToLock(n, a)
    \/ \E n \in SkillNames : RemoveSkillFromLock(n)
    \/ DismissPrompt("find_skills_prompt")
    \/ \E agents \in AgentLists : SaveSelectedAgents(agents)

(***************************************************************************)
(* URLs.  A URL is [scheme, netloc, path]: the string                      *)
(*     scheme netloc "/" path[1] "/" path[2] ...                           *)
(* where scheme ends in "://", and netloc and the path segments hold no    *)
(* "/", "?" or "#".  A last segment "" is a trailing slash.  The string    *)
(* functions of Python are modelled on this structure.                     *)
(***************************************************************************)
Url(scheme, netloc, path) == [scheme |-> scheme, netloc |-> netloc, path |-> path]

Schemes == {"https://", "http://", "ssh://"}
Netlocs == {"huggingface.co", "HuggingFace.co", "huggingface.co:443", "github.com",
            "gitlab.com", "raw.githubusercontent.com", "docs.example.com", "", "[bad"}
\* the segments a path is made of; those the code tests only at the end of
\* the URL (.git, skill.md) are drawn for the last segment alone
Segments == {"spaces", "owner", "repo", ""}
LastSegments == Segments \cup {"repo.git", "skill.md", "SKILL.MD"}

Paths(S, n) == UNION {[1..k -> S] : k \in 0..n}
UrlPaths ==
    {<<>>} \cup {Append(p, l) : p \in Paths(Segments, MaxSegs - 1), l \in LastSegments}
Urls == {Url(s, h, p) : s \in Schemes, h \in Netlocs, p \in UrlPaths}

\* "/".join(parts)
RECURSIVE Join(_)
Join(parts) ==
    IF parts = <<>> THEN ""
    ELSE IF Len(parts) = 1 THEN parts[1]
    ELSE parts[1] \o "/" \o Join(Tail(parts))

\* the URL as a string
Str(url) == url.scheme \o Join(<<url.netloc>> \o url.path)

\* the parts of the URL that "/" separates, after the scheme
Elements(url) == <<url.netloc>> \o url.path

\* str.lower()
Lower(tok) ==
    CASE tok = "SKILL.MD" -> "skill.md"
      [] tok = "HuggingFace.co" -> "huggingface.co"
      [] tok = "SKILL.md" -> "skill.md"
      [] OTHER -> tok

\* url.startswith('http://') or url.startswith('https://')
StartsWithHttp(url) == url.scheme \in {"http://", "https://"}

\* url.lower().endswith('/skill.md')
EndsWithSkillMd(url) ==
    LET e == Elements(url) IN Lower(e[Len(e)]) = "skill.md"

\* urlparse(url) raises ValueError (an unclosed "[" in the netloc)
UrlparseRaises(url) == url.netloc = "[bad"

\* urlparse(url).hostname: the netloc without its port, lower-cased; None when empty
Hostname(url) ==
    CASE url.netloc = "" -> None
      [] url.netloc = "huggingface.co:443" -> Some("huggingface.co")
      [] OTHER -> Some(Lower(url.netloc))

\* x or default
OrElse(o, default) == IF TruthyStr(o) THEN o[1] ELSE default

ProviderMatch(matches, source_identifier) ==
    [matches |-> matches, source_identifier |-> source_identifier]
NoMatch == ProviderMatch(FALSE, None)

EXCLUDED_HOSTS == {"github.com", "gitlab.com", "huggingface.co", "raw.githubusercontent.com"}

(***************************************************************************)
(* providers/huggingface.py                                                *)
(***************************************************************************)
\* '/spaces/' in url
ContainsSpaces(url) ==
    LET e == Elements(url) IN \E i \in 1..Len(e) - 1 : e[i] = "spaces"

\* where re.search(r'/spaces/([^/]+)/([^/]+)', url) can match
SpacesMatchAt(e, i) ==
    /\ i + 2 <= Len(e)
    /\ e[i] = "spaces" /\ e[i + 1] # "" /\ e[i + 2] # ""

\* HuggingFaceProvider._parse_url: <<owner, repo>> of the leftmost match, or None
HFParseUrl(url) ==
    LET e == Elements(url)
        at == {i \in 1..Len(e) : SpacesMatchAt(e, i)}
    IN  IF at = {} THEN None
        ELSE LET i == CHOOSE i \in at : \A j \in at : i <= j
             IN  Some([owner |-> e[i + 1], repo |-> e[i + 2]])

\* (mutant) the identifier built from the repository alone
HFGetSourceIdentifier_NoOwner(url) ==
    LET info == HFParseUrl(url)
    IN  IF info # None THEN "huggingface/" \o info[1].repo ELSE "huggingface"

\* HuggingFaceProvider.get_source_identifier
HFGetSourceIdentifier(url) ==
    LET info == HFParseUrl(url)
    IN  IF info # None
        THEN "huggingface/" \o info[1].owner \o "/" \o info[1].repo
        ELSE "huggingface"

\* HuggingFaceProvider.match
HFMatch(url) ==
    IF ~StartsWithHttp(url) THEN NoMatch
    ELSE IF UrlparseRaises(url) THEN NoMatch
    ELSE IF OrElse(Hostname(url), "") # "huggingface.co" THEN NoMatch
    ELSE IF ~ContainsSpaces(url) THEN NoMatch
    ELSE IF ~EndsWithSkillMd(url) THEN NoMatch
    ELSE ProviderMatch(TRUE, Some(HFGetSourceIdentifier(url)))

\* url.replace('/blob/', '/raw/') on the parts e from place i on: a part
\* "blob" that is not the last one becomes "raw"; the "/" that ends one
\* replaced "/blob/" cannot begin the next
RECURSIVE ReplaceBlob(_, _, _)
ReplaceBlob(e, i, prevReplaced) ==
    IF i > Len(e) THEN <<>>
    ELSE IF e[i] = "blob" /\ i < Len(e) /\ ~prevReplaced
         THEN <<"raw">> \o ReplaceBlob(e, i + 1, TRUE)
         ELSE <<e[i]>> \o ReplaceBlob(e, i + 1, FALSE)

\* HuggingFaceProvider.to_raw_url
HFToRawUrl(url) ==
    LET e == ReplaceBlob(Elements(url), 1, FALSE)
    IN  Url(url.scheme, e[1], Tail(e))

(***************************************************************************)
(* providers/mintlify.py                                                   *)
(***************************************************************************)
\* MintlifyProvider.get_source_identifier
MintlifyGetSourceIdentifier(url) ==
    IF UrlparseRaises(url) THEN "mintlify/com"
    ELSE "mintlify/" \o OrElse(Hostname(url), "com")

\* (mutant) the excluded-host test left out
MintlifyHostExcluded_Never(url) == FALSE

\* hostname in EXCLUDED_HOSTS
MintlifyHostExcluded(url) == OrElse(Hostname(url), "") \in EXCLUDED_HOSTS

\* MintlifyProvider.match
MintlifyMatch(url) ==
    IF ~StartsWithHttp(url) THEN NoMatch
    ELSE IF ~EndsWithSkillMd(url) THEN NoMatch
    ELSE IF UrlparseRaises(url) THEN NoMatch
    ELSE IF MintlifyHostExcluded(url) THEN NoMatch
    ELSE ProviderMatch(TRUE, Some(MintlifyGetSourceIdentifier(url)))

\* MintlifyProvider.to_raw_url
MintlifyToRawUrl(url) == url

(***************************************************************************)
(* providers/wellknown.py                                                  *)
(***************************************************************************)
\* (mutant) the .git test left out
EndsWithGit_Never(url) == FALSE

\* url.endswith('.git')
EndsWithGit(url) ==
    LET e == Elements(url) IN e[Len(e)] \in {"repo.git", ".git"}

\* WellKnownProvider.get_source_identifier
WKGetSourceIdentifier(url) ==
    IF UrlparseRaises(url) THEN Str(url) ELSE OrElse(Hostname(url), Str(url))

\* (mutant) the /skill.md test left out
WKMatch_IgnoresSkillMd(url) ==
    IF ~StartsWithHttp(url) THEN NoMatch
    ELSE IF UrlparseRaises(url) THEN NoMatch
    ELSE IF OrElse(Hostname(url), "") \in EXCLUDED_HOSTS THEN NoMatch
    ELSE IF EndsWithGit(url) THEN NoMatch
    ELSE ProviderMatch(TRUE, Some(WKGetSourceIdentifier(url)))

\* WellKnownProvider.match
WKMatch(url) ==
    IF ~StartsWithHttp(url) THEN NoMatch
    ELSE IF UrlparseRaises(url) THEN NoMatch
    ELSE IF OrElse(Hostname(url), "") \in EXCLUDED_HOSTS THEN NoMatch
    ELSE IF EndsWithSkillMd(url) THEN NoMatch
    ELSE IF EndsWithGit(url) THEN NoMatch
    ELSE ProviderMatch(TRUE, Some(WKGetSourceIdentifier(url)))

\* WellKnownProvider.to_raw_url
WKToRawUrl(url) == url

(***************************************************************************)
(* HTTP and skill documents.  The server is the environment: net gives its *)
(* answer to each kind of request a fetch makes (the index.json, the skill *)
(* document, another file of the skill).  A document is modelled by the    *)
(* front matter that frontmatter.loads finds in it.                        *)
(***************************************************************************)
\* client.get raises httpx.RequestError
NetworkError == [kind |-> "error"]
\* a request that was not made
Unasked == [kind |-> "unasked"]
Response(status_code, body) ==
    [kind |-> "response", status_code |-> status_code, body |-> body]

\* post.metadata: the keys name, description and metadata, each Optional
FrontMatter(name, description, metadata) ==
    [name |-> name, description |-> description, metadata |-> metadata]
\* a document without front matter
PlainText == FrontMatter(None, None, None)

\* the value of the front-matter key metadata: a mapping, or a plain string
MetaDict == JObj([k \in {"install-name", "mintlify-proj"} |->
                    IF k = "install-name" THEN "inst" ELSE "proj"])
MetaValues == {None, Some(JStr("x")), Some(MetaDict)}

\* every case of name and description, and every metadata on a complete document
Documents ==
    {FrontMatter(n, d, None) : n \in {None, Some(""), Some("Alpha Skill")},
                               d \in {None, Some(""), Some("A skill")}}
    \cup {FrontMatter(Some("Alpha Skill"), Some("A skill"), m) : m \in MetaValues}

DocResponses ==
    {NetworkError, Response(404, PlainText)} \cup {Response(200, doc) : doc \in Documents}

FileResponses == {NetworkError, Response(404, PlainText), Response(200, PlainText)}

\* a skills entry of index.json: the keys name, description and files, each
\* Optional; files is a JSON value, an array of names unless the index is malformed
IndexEntry(name, description, files) ==
    [name |-> name, description |-> description, files |-> files]
EntryAlpha ==
    IndexEntry(Some("alpha"), Some("Alpha from the index"), Some(JArr(<<"SKILL.md", "ref.md">>)))
EntryBeta == IndexEntry(Some("beta"), None, None)

\* the body of index.json: not JSON, a JSON array, or an object with or without skills
IndexInvalidJson == [t |-> "invalid", v |-> <<>>]
IndexObject(skills) == JObj([skills |-> skills])
IndexBodies ==
    {IndexInvalidJson, JArr(<<>>), IndexObject(None), IndexObject(Some(<<>>)),
     IndexObject(Some(<<EntryAlpha>>)), IndexObject(Some(<<EntryBeta, EntryAlpha>>))}

IndexResponses ==
    {NetworkError, Response(404, IndexInvalidJson)} \cup {Response(200, b) : b \in IndexBodies}

Nets == [index : IndexResponses, doc : DocResponses, file : FileResponses]
\* the answers to a fetch that requests the skill document alone
DocNets == [index : {Unasked}, doc : DocResponses, file : {Unasked}]

\* the answers the fetch saw: the answer to a request it did not make is Unasked
Seen(net, asked) ==
    [index |-> IF "index" \in asked THEN net.index ELSE Unasked,
     doc |-> IF "doc" \in asked THEN net.doc ELSE Unasked,
     file |-> IF "file" \in asked THEN net.file ELSE Unasked]

\* the URLs fetched
HFBlobUrl == Url("https://", "huggingface.co", <<"spaces", "owner", "repo", "blob", "main", "SKILL.md">>)
HFBareUrl == Url("https://", "huggingface.co", <<"spaces", "skill.md">>)
DocsSkillUrl == Url("https://", "docs.example.com", <<"skill.md">>)
DocsUrl == Url("https://", "docs.example.com", <<>>)
DocsSlashUrl == Url("http://", "docs.example.com", <<"docs", "">>)
WKAlphaUrl == Url("https://", "docs.example.com", <<".well-known", "skills", "alpha">>)
WKGammaUrl == Url("https://", "docs.example.com", <<".well-known", "skills", "gamma">>)
WKPrefixUrl == Url("https://", "docs.example.com", <<".well-known", "skills-v2">>)
GitHubUrl == Url("https://", "github.com", <<"owner", "repo">>)
SshUrl == Url("ssh://", "docs.example.com", <<"skill.md">>)
FetchUrls ==
    {HFBlobUrl, HFBareUrl, DocsSkillUrl, DocsUrl, DocsSlashUrl, WKAlphaUrl,
     WKGammaUrl, WKPrefixUrl, GitHubUrl, SshUrl}

\* dict.get(key, default) on an Optional key
GetOr(o, default) == IF o = None THEN default ELSE o[1]

\* name.lower().replace(' ', '-')
Slug(name) == IF name = "Alpha Skill" THEN "alpha-skill" ELSE Lower(name)

\* RemoteSkill (providers/base.py)
RemoteSkill(name, description, content, install_name, source_url, metadata) ==
    [name |-> name, description |-> description, content |-> content,
     install_name |-> install_name, source_url |-> source_url, metadata |-> metadata]

\* the front-matter keys other than name and description; None when there are none
OtherMetadata(post) ==
    IF post.metadata = None THEN None ELSE Some([metadata |-> post.metadata[1]])

\* meta.get(key) when the front matter has a metadata key that is a dict
MetaInstallName(post, key) ==
    IF post.metadata = None THEN None
    ELSE IF post.metadata[1].t # "object" THEN None
    ELSE IF key \in DOMAIN post.metadata[1].v THEN Some(post.metadata[1].v[key])
    ELSE None

\* the outcome of a fetch: the exception it raised or "none", the skill or
\* None it returned, the URLs it requested in order, the kinds of request made
FetchResult(exc, result, requests, asked) ==
    [exc |-> exc, result |-> result, requests |-> requests, asked |-> asked]

\* except (httpx.RequestError, ValueError): return None
FetchCatches == {"RequestError", "ValueError", "JSONDecodeError"}
Caught(exc, requests, asked) ==
    IF exc \in FetchCatches THEN FetchResult("none", None, requests, asked)
    ELSE FetchResult(exc, None, requests, asked)

\* HuggingFaceProvider.fetch_skill
HFFetchSkill(url, net) ==
    LET raw_url == HFToRawUrl(url)
        requests == <<Str(raw_url)>>
        response == net.doc
    IN  IF response.kind = "error" THEN Caught("RequestError", requests, {"doc"})
        ELSE IF response.status_code # 200 THEN FetchResult("none", None, requests, {"doc"})
        ELSE LET post == response.body
                 name == post.name
                 description == post.description
                 meta_name == MetaInstallName(post, "install-name")
                 info == HFParseUrl(url)
                 install_name ==
                     IF TruthyStr(meta_name) THEN meta_name[1]
                     ELSE IF info # None THEN info[1].repo
                     ELSE Slug(name[1])
             IN  IF ~TruthyStr(name) \/ ~TruthyStr(description)
                 THEN FetchResult("none", None, requests, {"doc"})
                 ELSE FetchResult("none",
                         Some(RemoteSkill(name[1], description[1], post, install_name,
                                          Str(url), OtherMetadata(post))),
                         requests, {"doc"})

\* MintlifyProvider.fetch_skill
MintlifyFetchSkill(url, net) ==
    LET requests == <<Str(url)>>
        response == net.doc
    IN  IF response.kind = "error" THEN Caught("RequestError", requests, {"doc"})
        ELSE IF response.status_code # 200 THEN FetchResult("none", None, requests, {"doc"})
        ELSE LET post == response.body
                 name == post.name
                 description == post.description
                 meta_name == MetaInstallName(post, "mintlify-proj")
                 install_name ==
                     IF TruthyStr(meta_name) THEN meta_name[1] ELSE Slug(name[1])
             IN  IF ~TruthyStr(name) \/ ~TruthyStr(description)
                 THEN FetchResult("none", None, requests, {"doc"})
                 ELSE FetchResult("none",
                         Some(RemoteSkill(name[1], description[1], post, install_name,
                                          Str(url), OtherMetadata(post))),
                         requests, {"doc"})

\* path.rstrip('/'): a last segment "" is a trailing slash
RECURSIVE RStripSlash(_)
RStripSlash(path) ==
    IF path # <<>> /\ path[Len(path)] = ""
    THEN RStripSlash(SubSeq(path, 1, Len(path) - 1))
    ELSE path

\* seg.startswith('skills')
StartsWithSkills(seg) == seg \in {"skills", "skills-v2"}

\* (mutant) the suffix appended whether or not the path already holds it
WKGetWellKnownBase_AlwaysAppends(url) ==
    Url(url.scheme, url.netloc, RStripSlash(url.path) \o <<".well-known", "skills">>)

\* WellKnownProvider._get_well_known_base
WKGetWellKnownBase(url) ==
    LET path == RStripSlash(url.path)
        at == {i \in 1..Len(path) - 1 :
                 path[i] = ".well-known" /\ StartsWithSkills(path[i + 1])}
    IN  IF at # {}
        THEN LET idx == CHOOSE i \in at : \A j \in at : i <= j
             IN  Url(url.scheme, url.netloc, SubSeq(path, 1, idx) \o <<"skills">>)
        ELSE Url(url.scheme, url.netloc, path \o <<".well-known", "skills">>)

\* WellKnownSkillEntry built from a skills entry of index.json
WellKnownSkillEntry(entry) ==
    [name |-> GetOr(entry.name, ""),
     description |-> GetOr(entry.description, ""),
     files |-> GetOr(entry.files, JArr(<<>>))]

\* WellKnownProvider.fetch_index: result is the list of entries, or None.
\* urlparse runs before the try; response.json() raises JSONDecodeError (a
\* ValueError); data.get raises AttributeError when data is not a dict
WKFetchIndex(url, net) ==
    LET index_url == Str(WKGetWellKnownBase(url)) \o "/index.json"
        requests == <<index_url>>
        response == net.index
    IN  IF UrlparseRaises(url) THEN FetchResult("ValueError", None, <<>>, {})
        ELSE IF response.kind = "error" THEN Caught("RequestError", requests, {"index"})
        ELSE IF response.status_code # 200 THEN FetchResult("none", None, requests, {"index"})
        ELSE LET data == response.body
             IN  IF data.t = "invalid" THEN Caught("JSONDecodeError", requests, {"index"})
                 ELSE IF data.t # "object" THEN Caught("AttributeError", requests, {"index"})
                 ELSE LET skills == GetOr(data.v.skills, <<>>)
                      IN  FetchResult("none",
                              Some([i \in 1..Len(skills) |-> WellKnownSkillEntry(skills[i])]),
                              requests, {"index"})

\* the names in entry.files other than SKILL.md
RECURSIVE OtherFiles(_)
OtherFiles(files) ==
    IF files = <<>> THEN <<>>
    ELSE IF files[1] = "SKILL.md" THEN OtherFiles(Tail(files))
    ELSE <<files[1]>> \o OtherFiles(Tail(files))

\* WellKnownSkill
WellKnownSkill(name, description, content, install_name, source_url, metadata, files, index_entry) ==
    [name |-> name, description |-> description, content |-> content,
     install_name |-> install_name, source_url |-> source_url, metadata |-> metadata,
     files |-> files, index_entry |-> index_entry]

\* bool(x) of a files value: an empty list and 0 are falsy
TruthyFiles(j) == IF j.t = "array" THEN j.v # <<>> ELSE j.v # 0

\* the answer to the request of the file f of a skill: net.file is one
\* answer for every file, or an answer for each file name
FileAnswer(net, f) == IF "kind" \in DOMAIN net.file THEN net.file ELSE net.file[f]

\* (mutant) fetch_file without its try: the failure of one file is the
\* failure of the fetch, caught like that of SKILL.md
WKFetchSkillByEntry_FilesFailTogether(url, entry, net) ==
    LET skill_base_url == Str(WKGetWellKnownBase(url)) \o "/" \o entry.name
        skill_md_url == skill_base_url \o "/SKILL.md"
        response == net.doc
    IN  IF UrlparseRaises(url) THEN FetchResult("ValueError", None, <<>>, {})
        ELSE IF response.kind = "error" THEN Caught("RequestError", <<skill_md_url>>, {"doc"})
        ELSE IF response.status_code # 200
             THEN FetchResult("none", None, <<skill_md_url>>, {"doc"})
        ELSE IF TruthyFiles(entry.files) /\ entry.files.t # "array"
             THEN Caught("TypeError", <<skill_md_url>>, {"doc"})
        ELSE LET content == response.body
                 post == content
                 name == GetOr(post.name, entry.name)
                 description == GetOr(post.description, entry.description)
                 other_files == OtherFiles(entry.files.v)
                 fetched == {other_files[i] : i \in 1..Len(other_files)}
                 got == {f \in fetched : /\ FileAnswer(net, f).kind = "response"
                                          /\ FileAnswer(net, f).status_code = 200}
                 files == [f \in {"SKILL.md"} \cup got |->
                             IF f = "SKILL.md" THEN content ELSE FileAnswer(net, f).body]
             IN  IF \E f \in fetched : FileAnswer(net, f).kind = "error"
                 THEN FetchResult("none", None, <<skill_md_url>>, {"doc", "file"})
                 ELSE
                 FetchResult("none",
                     Some(WellKnownSkill(name, description, content, entry.name,
                                         skill_md_url, OtherMetadata(post), files, entry)),
                     <<skill_md_url>> \o
                        [i \in 1..Len(other_files) |-> skill_base_url \o "/" \o other_files[i]],
                     IF other_files = <<>> THEN {"doc"} ELSE {"doc", "file"})

\* WellKnownProvider.fetch_skill_by_entry.  The other files are requested
\* together (asyncio.gather); a file that fails is left out of files.
\* Iterating a truthy files value that is not a list raises TypeError, which
\* the except clause does not catch
WKFetchSkillByEntry(url, entry, net) ==
    LET skill_base_url == Str(WKGetWellKnownBase(url)) \o "/" \o entry.name
        skill_md_url == skill_base_url \o "/SKILL.md"
        response == net.doc
    IN  IF UrlparseRaises(url) THEN FetchResult("ValueError", None, <<>>, {})
        ELSE IF response.kind = "error" THEN Caught("RequestError", <<skill_md_url>>, {"doc"})
        ELSE IF response.status_code # 200
             THEN FetchResult("none", None, <<skill_md_url>>, {"doc"})
        ELSE IF TruthyFiles(entry.files) /\ entry.files.t # "array"
             THEN Caught("TypeError", <<skill_md_url>>, {"doc"})
        ELSE LET content == response.body
                 post == content
                 name == GetOr(post.name, entry.name)
                 description == GetOr(post.description, entry.description)
                 other_files == OtherFiles(entry.files.v)
                 fetched == {other_files[i] : i \in 1..Len(other_files)}
                 got == {f \in fetched : /\ FileAnswer(net, f).kind = "response"
                                          /\ FileAnswer(net, f).status_code = 200}
                 files == [f \in {"SKILL.md"} \cup got |->
                             IF f = "SKILL.md" THEN content ELSE FileAnswer(net, f).body]
             IN  FetchResult("none",
                     Some(WellKnownSkill(name, description, content, entry.name,
                                         skill_md_url, OtherMetadata(post), files, entry)),
                     <<skill_md_url>> \o
                        [i \in 1..Len(other_files) |-> skill_base_url \o "/" \o other_files[i]],
                     IF other_files = <<>> THEN {"doc"} ELSE {"doc", "file"})

\* s.strip('/') on the parts of s
RECURSIVE LStripSlash(_)
LStripSlash(parts) ==
    IF parts # <<>> /\ parts[1] = "" THEN LStripSlash(Tail(parts)) ELSE parts
StripSlash(parts) == RStripSlash(LStripSlash(parts))

\* the skill name in the URL: the single non-empty part after the leftmost
\* '/.well-known/skills/', or None
WKSkillNameInUrl(url) ==
    LET e == Elements(url)
        at == {i \in 1..Len(e) - 2 : e[i] = ".well-known" /\ e[i + 1] = "skills"}
    IN  IF at = {} THEN None
        ELSE LET idx == CHOOSE i \in at : \A j \in at : i <= j
                 remainder == StripSlash(SubSeq(e, idx + 2, Len(e)))
             IN  IF Len(remainder) = 1 THEN Some(remainder[1]) ELSE None

\* the request of a second step follows those of the first
After(first, second) ==
    FetchResult(second.exc, second.result, first.requests \o second.requests,
                first.asked \cup second.asked)

\* WellKnownProvider.fetch_skill
WKFetchSkill(url, net) ==
    LET index == WKFetchIndex(url, net)
        skill_name == WKSkillNameInUrl(url)
    IN  IF index.exc # "none" THEN index
        ELSE IF ~TruthyList(index.result) THEN FetchResult("none", None, index.requests, index.asked)
        ELSE LET skills == index.result[1]
                 named == {i \in 1..Len(skills) : skill_name # None /\ skills[i].name = skill_name[1]}
             IN  IF TruthyStr(skill_name)
                 THEN IF named = {} THEN FetchResult("none", None, index.requests, index.asked)
                      ELSE After(index, WKFetchSkillByEntry(url,
                                    skills[CHOOSE i \in named : \A j \in named : i <= j], net))
                 ELSE After(index, WKFetchSkillByEntry(url, skills[1], net))

\* the answers of the server to one fetch_all_skills: the index, the
\* SKILL.md of each entry by entry name, and any other file
AllNet(index, docs, other) == [index |-> index, docs |-> docs, file |-> other]
\* the answers the fetch of one entry sees
EntryNet(net, entry) ==
    [index |-> net.index,
     doc |-> IF entry.name \in DOMAIN net.docs THEN net.docs[entry.name]
             ELSE Response(404, PlainText),
     file |-> net.file]

\* [skill for skill in results if skill is not None]
RECURSIVE NotNone(_)
NotNone(results) ==
    IF results = <<>> THEN <<>>
    ELSE IF results[1] = None THEN NotNone(Tail(results))
    ELSE <<results[1][1]>> \o NotNone(Tail(results))

\* await asyncio.gather(*tasks), return_exceptions left False: order[k] is
\* the task that completes k-th.  The exception of the first task to raise is
\* propagated to the awaiter; otherwise the results are in the order of tasks
Gather(tasks, order) ==
    LET raised == {k \in 1..Len(tasks) : tasks[order[k]].exc # "none"}
    IN  IF raised # {}
        THEN [exc |-> tasks[order[CHOOSE k \in raised : \A j \in raised : k <= j]].exc,
              results |-> <<>>]
        ELSE [exc |-> "none", results |-> [i \in 1..Len(tasks) |-> tasks[i].result]]

\* the fetch_skill_by_entry coroutines fetch_all_skills creates
WKEntryTasks(url, skills, net) ==
    [i \in 1..Len(skills) |-> WKFetchSkillByEntry(url, skills[i], EntryNet(net, skills[i]))]

\* WellKnownProvider.fetch_all_skills: the exception raised and the list returned
WKFetchAllSkills(url, net, order) ==
    LET index == WKFetchIndex(url, [index |-> net.index, doc |-> Unasked, file |-> Unasked])
    IN  IF index.exc # "none" THEN [exc |-> index.exc, result |-> <<>>]
        ELSE IF ~TruthyList(index.result) THEN [exc |-> "none", result |-> <<>>]
        ELSE LET results == Gather(WKEntryTasks(url, index.result[1], net), order)
             IN  [exc |-> results.exc, result |-> NotNone(results.results)]

(***************************************************************************)
(* providers/__init__.py                                                   *)
(***************************************************************************)
\* a provider object: its id and which instance of its class it is
Provider(id, inst) == [id |-> id, inst |-> inst]
\* the singleton instances
mintlify_provider == Provider("mintlify", 0)
huggingface_provider == Provider("huggingface", 0)
wellknown_provider == Provider("well-known", 0)
Providers ==
    {Provider(id, inst) : id \in {"huggingface", "mintlify", "well-known"}, inst \in 0..1}

\* provider.match(url)
Match(provider, url) ==
    CASE provider.id = "huggingface" -> HFMatch(url)
      [] provider.id = "mintlify" -> MintlifyMatch(url)
      [] provider.id = "well-known" -> WKMatch(url)

\* provider.fetch_skill(url)
FetchSkill(provider, url, net) ==
    CASE provider.id = "huggingface" -> HFFetchSkill(url, net)
      [] provider.id = "mintlify" -> MintlifyFetchSkill(url, net)
      [] provider.id = "well-known" -> WKFetchSkill(url, net)

\* (mutant) a provider whose id is present replaces the one registered
RegistryRegister_Replaces(providers, provider) ==
    IF \E i \in 1..Len(providers) : providers[i].id = provider.id
    THEN [i \in 1..Len(providers) |->
            IF providers[i].id = provider.id THEN provider ELSE providers[i]]
    ELSE Append(providers, provider)

\* ProviderRegistry.register
RegistryRegister(providers, provider) ==
    IF \E i \in 1..Len(providers) : providers[i].id = provider.id
    THEN providers
    ELSE Append(providers, provider)

\* (mutant) the first registered provider, whether or not it matches
RegistryFindProvider_Unmatched(providers, url) ==
    IF providers = <<>> THEN None ELSE Some(providers[1])

\* ProviderRegistry.find_provider
RegistryFindProvider(providers, url) ==
    LET at == {i \in 1..Len(providers) : Match(providers[i], url).matches}
    IN  IF at = {} THEN None
        ELSE Some(providers[CHOOSE i \in at : \A j \in at : i <= j])

\* ProviderRegistry.__init__
EmptyRegistry == <<>>
\* the register_provider calls made when the module is imported
ImportLog == <<huggingface_provider, mintlify_provider>>
\* the global registry once the module is imported
DefaultRegistry ==
    RegistryRegister(RegistryRegister(EmptyRegistry, ImportLog[1]), ImportLog[2])

\* a fetch call: the provider whose fetch_skill ran (None when none did),
\* the answers the server gave, and the outcome
FetchCall(op, provider, url, net, outcome) ==
    [op |-> op, provider |-> provider, url |-> url,
     net |-> Seen(net, outcome.asked),
     requests |-> outcome.requests, exc |-> outcome.exc, result |-> outcome.result]

NoFetch ==
    FetchCall("none", None, Url("", "", <<>>),
              [index |-> Unasked, doc |-> Unasked, file |-> Unasked],
              FetchResult("none", None, <<>>, {}))

\* fetch_remote_skill: the provider delegated to and the outcome
FetchRemoteSkill(providers, url, net) ==
    LET provider == RegistryFindProvider(providers, url)
    IN  IF provider # None
        THEN FetchCall("fetch_remote_skill", provider, url, net,
                       FetchSkill(provider[1], url, net))
        ELSE IF WKMatch(url).matches
        THEN FetchCall("fetch_remote_skill", Some(wellknown_provider), url, net,
                       WKFetchSkill(url, net))
        ELSE FetchCall("fetch_remote_skill", None, url, net,
                       FetchResult("none", None, <<>>, {}))

FetchIdle ==
    /\ registry = DefaultRegistry
    /\ regLog = ImportLog
    /\ lastFetch = NoFetch

(***************************************************************************)
(* provider.match(url) on every URL                                        *)
(***************************************************************************)
MatchCall(provider, url, result, raw) ==
    [provider |-> provider,   \* the id of the provider called
     url |-> url,
     result |-> result,       \* the ProviderMatch returned
     raw |-> raw]             \* provider.to_raw_url(url)

ProvIdle ==
    /\ lastMatch = MatchCall("none", Url("", "", <<>>), NoMatch, Url("", "", <<>>))
    /\ FetchIdle
    /\ CallIdle

(***************************************************************************)
(* Concurrent CLI invocations on one lock file.  Each invocation makes one *)
(* mutating lock-store call; the call reads the file, changes the lock in  *)
(* memory and rewrites the file (skill_lock.py takes no file lock), so the *)
(* read and the write of one invocation are separate steps that interleave *)
(* with those of the other.  write_text replaces the whole content.        *)
(***************************************************************************)
Procs == {1, 2}

NoOp == [op |-> "none", name |-> "", args |-> NoArgs, agents |-> <<>>]
AddOp(n, a) == [op |-> "add", name |-> n, args |-> a, agents |-> <<>>]
RemoveOp(n) == [op |-> "remove", name |-> n, args |-> NoArgs, agents |-> <<>>]
DismissOp == [op |-> "dismiss", name |-> "find_skills_prompt", args |-> NoArgs, agents |-> <<>>]
SaveOp(agents) == [op |-> "save", name |-> "", args |-> NoArgs, agents |-> agents]

ConcOps ==
    {AddOp(n, a) : n \in SkillNames, a \in AddArgs}
    \cup {RemoveOp(n) : n \in SkillNames}
    \cup {DismissOp}
    \cup {SaveOp(agents) : agents \in AgentLists}

\* The lock a call holds in memory before write_skill_lock(lock)
Changed(o, lock, now) ==
    CASE o.op = "add" ->
            [lock EXCEPT !.skills = (o.name :> NewEntry(lock, o.name, o.args, now)) @@ lock.skills]
      [] o.op = "remove" ->
            [lock EXCEPT !.skills = [n \in DOMAIN lock.skills \ {o.name} |-> lock.skills[n]]]
      [] o.op = "dismiss" ->
            IF o.name = "find_skills_prompt"
            THEN [lock EXCEPT !.dismissed.find_skills_prompt = TRUE] ELSE lock
      [] o.op = "save" -> [lock EXCEPT !.last_selected_agents = Some(o.agents)]
      [] OTHER -> lock

\* remove_skill_from_lock returns False before writing when the name is not recorded
ReturnsEarly(o, lock) == o.op = "remove" /\ o.name \notin DOMAIN lock.skills

Proc(pc, o, seen, lock, exc, now) ==
    [pc |-> pc,       \* "start", "loaded" (read done, write to come) or "done"
     o |-> o,         \* the call it makes
     seen |-> seen,   \* the file content its read_skill_lock() saw
     lock |-> lock,   \* the lock it holds in memory
     exc |-> exc,     \* the exception that ended it, or "none"
     now |-> now]     \* its datetime.now()

ConcIdle ==
    /\ procs = [p \in Procs |-> Proc("idle", NoOp, FileMissing, CreateEmptyLockFile, "none", "")]
    /\ log = <<>>
    /\ file0 = FileMissing

\* Lock files the concurrent invocations start from
ConcInitFiles ==
    {FileMissing, FileJson(JArr(<<>>))}
    \cup {FileJson(JObj(WithKey(WithKey([version |-> ver, skills |-> JObj(sk)],
                                        "dismissed", dis), "lastSelectedAgents", lsa))) :
            ver \in {JInt(2), JInt(3)},
            sk \in UNION {[S -> {EntryFull}] : S \in SUBSET SkillNames},
            dis \in Opt(InitDismissed \ {JBool(TRUE)}), lsa \in Opt(InitAgents)}

ConcInit ==
    /\ file \in ConcInitFiles
    /\ file0 = file
    /\ clock = 0
    /\ last = Call("none", "", NoArgs, <<>>, FileMissing, "none", FALSE, FALSE,
                   CreateEmptyLockFile, "")
    /\ procs = [p \in Procs |-> Proc("start", NoOp, FileMissing, CreateEmptyLockFile, "none", "")]
    /\ log = <<>>
    /\ ProvIdle

\* (mutant) a writer that takes over the skills other invocations recorded
\* since it read the file
DocumentWritten_Merging(p) ==
    LET cur == ReadSkillLock(file).lock
        mine == procs[p].lock
    IN  WriteSkillLock([mine EXCEPT !.skills = mine.skills @@ cur.skills])

\* The document write_skill_lock(lock) puts in place of the file
DocumentWritten(p) == WriteSkillLock(procs[p].lock)

\* lock = await read_skill_lock(), now = datetime.now(), the change in memory
CRead(p, o) ==
    LET r == ReadSkillLock(file)
        now == Now(clock + 1)
    IN  /\ procs[p].pc = "start"
        /\ clock' = clock + 1
        /\ log' = Append(log, <<p, "read">>)
        /\ procs' = [procs EXCEPT ![p] =
              IF r.exc # "none" THEN Proc("done", o, file, r.lock, r.exc, now)
              ELSE IF ReturnsEarly(o, r.lock) THEN Proc("done", o, file, r.lock, "none", now)
              ELSE Proc("loaded", o, file, Changed(o, r.lock, now), "none", now)]
        /\ UNCHANGED <<file, file0, last, provVars>>

\* await write_skill_lock(lock)
CWrite(p) ==
    /\ procs[p].pc = "loaded"
    /\ \E w \in WriteOutcomes(file) :
          /\ file' = IF w = "none" THEN DocumentWritten(p) ELSE file
          /\ log' = IF w = "none" THEN Append(log, <<p, "write">>) ELSE log
          /\ procs' = [procs EXCEPT ![p].pc = "done", ![p].exc = w]
    /\ UNCHANGED <<clock, file0, last, provVars>>

ConcNext ==
    \/ \E p \in Procs, o \in ConcOps : CRead(p, o)
    \/ \E p \in Procs : CWrite(p)

Init == LockInit /\ ConcIdle /\ ProvIdle
Next == LockNext
Spec == Init /\ [][Next]_vars

SpecConc == ConcInit /\ [][ConcNext]_vars

(***************************************************************************)
(* The specification of provider.match(url)                                *)
(***************************************************************************)
\* Init draws the URL; each action applies one provider's match to it
MatchInit ==
    /\ LockInit /\ file = FileMissing /\ ConcIdle
    /\ \E url \in Urls : lastMatch = MatchCall("none", url, NoMatch, url)
    /\ FetchIdle
    /\ CallIdle

HuggingFaceMatch ==
    LET url == lastMatch.url
    IN  /\ lastMatch.provider = "none"
        /\ lastMatch' = MatchCall("huggingface", url, HFMatch(url), HFToRawUrl(url))
        /\ UNCHANGED <<lockVars, concVars, fetchVars, callVars>>

MintlifyProviderMatch ==
    LET url == lastMatch.url
    IN  /\ lastMatch.provider = "none"
        /\ lastMatch' = MatchCall("mintlify", url, MintlifyMatch(url), MintlifyToRawUrl(url))
        /\ UNCHANGED <<lockVars, concVars, fetchVars, callVars>>

WellKnownMatch ==
    LET url == lastMatch.url
    IN  /\ lastMatch.provider = "none"
        /\ lastMatch' = MatchCall("well-known", url, WKMatch(url), WKToRawUrl(url))
        /\ UNCHANGED <<lockVars, concVars, fetchVars, callVars>>

MatchNext ==
    \/ HuggingFaceMatch
    \/ MintlifyProviderMatch
    \/ WellKnownMatch

SpecMatch == MatchInit /\ [][MatchNext]_vars

(***************************************************************************)
(* The specification of a ProviderRegistry: a registry as constructed, and *)
(* register() calls on it                                                  *)
(***************************************************************************)
RegInit ==
    /\ LockInit /\ file = FileMissing /\ ConcIdle
    /\ lastMatch = MatchCall("none", Url("", "", <<>>), NoMatch, Url("", "", <<>>))
    /\ registry = EmptyRegistry
    /\ regLog = <<>>
    /\ lastFetch = NoFetch
    /\ CallIdle

Register(provider) ==
    /\ Len(regLog) < MaxRegs
    /\ registry' = RegistryRegister(registry, provider)
    /\ regLog' = Append(regLog, provider)
    /\ UNCHANGED <<lockVars, concVars, callVars, lastMatch, lastFetch>>

RegNext == \E provider \in Providers : Register(provider)

SpecReg == RegInit /\ [][RegNext]_vars

(***************************************************************************)
(* The specification of fetching: the module as imported, register_provider *)
(* calls on the global registry, then one fetch                            *)
(***************************************************************************)
\* register_provider calls per behaviour, those of the import included: one
\* more call reaches every registry the global one can become, since only a
\* provider with the id well-known is not yet in it
MaxProvRegs == Len(ImportLog) + 1

ProvInit ==
    /\ LockInit /\ file = FileMissing /\ ConcIdle
    /\ ProvIdle

RegisterProvider(provider) ==
    /\ lastFetch.op = "none"
    /\ Len(regLog) < MaxProvRegs
    /\ registry' = RegistryRegister(registry, provider)
    /\ regLog' = Append(regLog, provider)
    /\ UNCHANGED <<lockVars, concVars, callVars, lastMatch, lastFetch>>

FetchRemote(url, net) ==
    /\ lastFetch.op = "none"
    /\ lastFetch' = FetchRemoteSkill(registry, url, net)
    /\ UNCHANGED <<lockVars, concVars, callVars, lastMatch, registry, regLog>>

HuggingFaceFetchSkill(url, net) ==
    /\ lastFetch.op = "none"
    /\ lastFetch' = FetchCall("fetch_skill", Some(huggingface_provider), url, net,
                              HFFetchSkill(url, net))
    /\ UNCHANGED <<lockVars, concVars, callVars, lastMatch, registry, regLog>>

MintlifyProviderFetchSkill(url, net) ==
    /\ lastFetch.op = "none"
    /\ lastFetch' = FetchCall("fetch_skill", Some(mintlify_provider), url, net,
                              MintlifyFetchSkill(url, net))
    /\ UNCHANGED <<lockVars, concVars, callVars, lastMatch, registry, regLog>>

WellKnownFetchSkill(url, net) ==
    /\ lastFetch.op = "none"
    /\ lastFetch' = FetchCall("fetch_skill", Some(wellknown_provider), url, net,
                              WKFetchSkill(url, net))
    /\ UNCHANGED <<lockVars, concVars, callVars, lastMatch, registry, regLog>>

ProvNext ==
    \/ \E provider \in Providers : RegisterProvider(provider)
    \/ \E url \in FetchUrls, net \in Nets :
          \/ FetchRemote(url, net)
          \/ WellKnownFetchSkill(url, net)
    \/ \E url \in FetchUrls, net \in DocNets :
          \/ HuggingFaceFetchSkill(url, net)
          \/ MintlifyProviderFetchSkill(url, net)

SpecProv == ProvInit /\ [][ProvNext]_vars

(***************************************************************************)
(* The specification of provider selection: a registry as constructed, the *)
(* three providers registered in any order, then one find_provider or one  *)
(* fetch_remote_skill                                                      *)
(***************************************************************************)
FindPaths ==
    {<<>>, <<"owner", "repo">>, <<"owner", "repo.git">>, <<"owner", "">>,
     <<"skill.md">>, <<"owner", "skill.md">>, <<"owner", "SKILL.MD">>,
     <<"spaces", "owner", "repo">>, <<"spaces", "skill.md">>,
     <<"spaces", "owner", "repo", "skill.md">>,
     <<"spaces", "owner", "repo", "SKILL.MD">>}
FindUrls == {Url(s, h, p) : s \in Schemes, h \in Netlocs, p \in FindPaths}
\* a server that answers no request
Offline == [index |-> NetworkError, doc |-> NetworkError, file |-> NetworkError]

RegisterFirst ==
    /\ lastCall.fn = "none"
    /\ lastFetch.op = "none"
    /\ \E provider \in {huggingface_provider, mintlify_provider, wellknown_provider} :
          Register(provider)

\* registry.find_provider(url)
FindProvider ==
    /\ lastCall.fn = "none"
    /\ lastFetch.op = "none"
    /\ \E url \in FindUrls :
          lastCall' = ThenCall(lastCall, "find_provider", url, "none",
                               RegistryFindProvider(registry, url))
    /\ UNCHANGED <<lockVars, concVars, lastMatch, fetchVars, fs>>

FetchRemoteOffline ==
    /\ lastCall.fn = "none"
    /\ \E url \in FindUrls : FetchRemote(url, Offline)

FindNext ==
    \/ RegisterFirst
    \/ FindProvider
    \/ FetchRemoteOffline

SpecFind == RegInit /\ [][FindNext]_vars

(***************************************************************************)
(* The specification of a round trip through the lock file: one            *)
(* write_skill_lock of a SkillLockFile, then one read_skill_lock           *)
(***************************************************************************)
\* SkillLockEntry values: the seven fields, skill_path null, empty or set
RoundEntries ==
    {[source |-> "owner/repo", source_type |-> "github",
      source_url |-> "https://github.com/owner/repo.git",
      skill_folder_hash |-> "sha-1", installed_at |-> "T0", updated_at |-> "T1",
      skill_path |-> sp] : sp \in {None, Some(""), Some("skills/x/SKILL.md")}}
    \cup
    {[source |-> "", source_type |-> "", source_url |-> "",
      skill_folder_hash |-> "", installed_at |-> "", updated_at |-> "",
      skill_path |-> None]}
RoundSkills == UNION {[names -> RoundEntries] : names \in SUBSET SkillNames}
RoundVersions == {CURRENT_VERSION - 1, CURRENT_VERSION, CURRENT_VERSION + 1}
RoundAgents == {None, Some(<<>>), Some(<<"cursor">>), Some(<<"cursor", "claude-code">>)}
RoundLocks ==
    {SkillLockFile(ver, sk, DismissedPrompts(fsp), lsa) :
        ver \in RoundVersions, sk \in RoundSkills, fsp \in BOOLEAN, lsa \in RoundAgents}

\* write_skill_lock(lock) where the path can be written
WriteLock ==
    /\ lastCall.fn = "none"
    /\ \E lock \in RoundLocks :
          /\ file' = WriteSkillLock(lock)
          /\ lastCall' = ThenCall(lastCall, "write_skill_lock", lock, "none", None)
    /\ UNCHANGED <<clock, last, concVars, lastMatch, fetchVars, fs>>

\* read_skill_lock() after it
ReadBack ==
    /\ lastCall.fn = "write_skill_lock"
    /\ LET r == ReadSkillLock(file)
       IN  lastCall' = ThenCall(lastCall, "read_skill_lock", file, r.exc, r.lock)
    /\ UNCHANGED <<lockVars, concVars, lastMatch, fetchVars, fs>>

RoundNext ==
    \/ WriteLock
    \/ ReadBack

SpecRound == ProvInit /\ [][RoundNext]_vars

(***************************************************************************)
(* cli.py: run_update.  One run: the lock is read, the skills that have a  *)
(* folder hash are posted to the update service, and each update reported  *)
(* is reinstalled through run_add, one await after another.  The service   *)
(* and run_add are the environment.                                        *)
(***************************************************************************)
\* the state of one run: the lock read at the start, the request posted
\* (None when none was), the updates taken from the answer, the place in
\* them of the update to reinstall next, the run_add calls made with their
\* outcomes, the two counters, and how the run ended if it has
UpdateRun(lock, posted, answer, updates, next, calls, success_count, fail_count, exc, pc) ==
    [fn |-> "run_update", lock |-> lock, posted |-> posted, answer |-> answer,
     updates |-> updates, next |-> next, calls |-> calls,
     success_count |-> success_count, fail_count |-> fail_count,
     exc |-> exc, pc |-> pc]

\* check_skills: the locked skills whose skill_folder_hash is not empty
CheckSkills(lock) ==
    LET names == {n \in DOMAIN lock.skills : lock.skills[n].skill_folder_hash # ""}
    IN  [n \in names |-> [name |-> n,
                          source |-> lock.skills[n].source,
                          path |-> lock.skills[n].skill_path,
                          skillFolderHash |-> lock.skills[n].skill_folder_hash]]

\* the first place from i on of an update whose name the lock holds
\* (`if not entry: continue`), or one past the end
NextInLock(updates, lock, i) ==
    LET at == {j \in i..Len(updates) : updates[j] \in DOMAIN lock.skills}
    IN  IF at = {} THEN Len(updates) + 1 ELSE CHOOSE j \in at : \A k \in at : j <= k

\* run_update up to its first run_add
StartUpdate(lock, answer) ==
    LET check_skills == CheckSkills(lock)
        ended(posted, seen, exc) ==
            UpdateRun(lock, posted, seen, <<>>, 1, <<>>, 0, 0, exc, "done")
    IN  IF DOMAIN lock.skills = {} THEN ended(None, Unasked, "none")
        ELSE IF DOMAIN check_skills = {} THEN ended(None, Unasked, "none")
        ELSE IF answer.kind = "error" THEN ended(Some(check_skills), answer, "Exit")
        ELSE IF answer.status_code # 200 THEN ended(Some(check_skills), answer, "Exit")
        ELSE IF answer.body.t # "object"
             THEN ended(Some(check_skills), answer,
                        IF answer.body.t = "invalid" THEN "JSONDecodeError" ELSE "AttributeError")
        ELSE LET updates == Get(answer.body.v, "updates", JArr(<<>>)).v
                 first == NextInLock(updates, lock, 1)
             IN  UpdateRun(lock, Some(check_skills), answer, updates, first, <<>>, 0, 0,
                           "none", IF first > Len(updates) THEN "done" ELSE "reinstalling")

\* the arguments of the run_add call for the update at the place run.next
RunAddArgs(run) ==
    LET skill_name == run.updates[run.next]
    IN  [source |-> run.lock.skills[skill_name].source_url,
         skill_names |-> <<skill_name>>, is_global |-> TRUE, yes |-> TRUE]

\* (mutant) the loop left at the first run_add that raises
AfterRunAdd_StopsAtFailure(run, exc) ==
    LET following == NextInLock(run.updates, run.lock, run.next + 1)
    IN  [run EXCEPT
            !.calls = Append(@, [args |-> RunAddArgs(run), exc |-> exc]),
            !.success_count = IF exc = "none" THEN @ + 1 ELSE @,
            !.fail_count = IF exc = "none" THEN @ ELSE @ + 1,
            !.next = following,
            !.pc = IF following > Len(run.updates) \/ exc # "none"
                   THEN "done" ELSE "reinstalling"]

\* one pass of the loop body from the run_add call on: run_add returned
\* (exc "none") or raised an Exception, then the updates to skip are skipped
AfterRunAdd(run, exc) ==
    LET following == NextInLock(run.updates, run.lock, run.next + 1)
    IN  [run EXCEPT
            !.calls = Append(@, [args |-> RunAddArgs(run), exc |-> exc]),
            !.success_count = IF exc = "none" THEN @ + 1 ELSE @,
            !.fail_count = IF exc = "none" THEN @ ELSE @ + 1,
            !.next = following,
            !.pc = IF following > Len(run.updates) THEN "done" ELSE "reinstalling"]

\* what run_add leaves in the lock file when it returns: the entry of the
\* skill with the hash of the new folder
Reinstalled(f, skill_name) ==
    LET lock == ReadSkillLock(f).lock
    IN  IF skill_name \in DOMAIN lock.skills
        THEN WriteSkillLock([lock EXCEPT !.skills[skill_name].skill_folder_hash = "sha-new"])
        ELSE f

\* the lock files at the start of a run
UpdateEntries ==
    {[source |-> "owner/repo", source_type |-> "github",
      source_url |-> "https://github.com/owner/repo.git",
      skill_folder_hash |-> "sha-1", installed_at |-> "T0", updated_at |-> "T0",
      skill_path |-> Some("skills/x/SKILL.md")],
     [source |-> "mintlify/docs.example.com", source_type |-> "mintlify",
      source_url |-> "https://docs.example.com/skill.md",
      skill_folder_hash |-> "", installed_at |-> "T0", updated_at |-> "T0",
      skill_path |-> None]}
UpdateFiles ==
    {FileMissing} \cup
    {WriteSkillLock(SkillLockFile(CURRENT_VERSION, sk, DismissedPrompts(FALSE), None)) :
        sk \in UNION {[names -> UpdateEntries] : names \in SUBSET SkillNames}}

\* the answers of the update service: the names of the updates reported
UpdateNames == SkillNames \cup {"unlocked-skill"}
ServiceBodies ==
    {IndexInvalidJson, JArr(<<>>), JObj(EmptyDict)}
    \cup {JObj([updates |-> JArr(u)]) : u \in Paths(UpdateNames, MaxUpdates)}
ServiceAnswers ==
    {NetworkError, Response(500, JNull)} \cup {Response(200, b) : b \in ServiceBodies}

UpdateInit ==
    /\ file \in UpdateFiles
    /\ clock = 0
    /\ last = Call("none", "", NoArgs, <<>>, FileMissing, "none", FALSE, FALSE,
                   CreateEmptyLockFile, "")
    /\ ConcIdle
    /\ ProvIdle

RunUpdate ==
    /\ lastCall.fn = "none"
    /\ \E answer \in ServiceAnswers :
          lastCall' = StartUpdate(ReadSkillLock(file).lock, answer)
    /\ UNCHANGED <<lockVars, concVars, lastMatch, fetchVars, fs>>

RunAdd ==
    /\ lastCall.fn = "run_update"
    /\ lastCall.pc = "reinstalling"
    /\ \E exc \in {"none", "Exception"} :
          /\ lastCall' = AfterRunAdd(lastCall, exc)
          /\ file' = IF exc = "none"
                     THEN Reinstalled(file, lastCall.updates[lastCall.next])
                     ELSE file
    /\ UNCHANGED <<clock, last, concVars, lastMatch, fetchVars, fs>>

UpdateNext ==
    \/ RunUpdate
    \/ RunAdd

SpecUpdate == UpdateInit /\ [][UpdateNext]_vars

(***************************************************************************)
(* The specification of WellKnownProvider._get_well_known_base: the base   *)
(* of a URL, then the base of a URL under that base                        *)
(***************************************************************************)
BaseNetlocs == {"docs.example.com", "Example.com:8080", "", "[bad"}
BaseSegments == {".well-known", "skills", "skills-v2", "docs", ""}
BaseUrls ==
    {Url(s, h, p) : s \in {"https://", "http://"}, h \in BaseNetlocs,
                    p \in Paths(BaseSegments, MaxSegs)}
\* what follows the base in a URL under it: nothing, a skill name, a slash
UnderBase == {<<>>, <<"alpha">>, <<"alpha", "">>, <<"">>}

\* one call of _get_well_known_base; urlparse raises ValueError
BaseCall(calls, url) ==
    IF UrlparseRaises(url)
    THEN ThenCall(calls, "_get_well_known_base", url, "ValueError", Url("", "", <<>>))
    ELSE ThenCall(calls, "_get_well_known_base", url, "none", WKGetWellKnownBase(url))

GetWellKnownBase ==
    /\ lastCall.fn = "none"
    /\ \E url \in BaseUrls : lastCall' = BaseCall(lastCall, url)
    /\ UNCHANGED <<lockVars, concVars, lastMatch, fetchVars, fs>>

GetWellKnownBaseUnder ==
    /\ lastCall.fn = "_get_well_known_base"
    /\ Len(lastCall.args) = 1
    /\ lastCall.excs[1] = "none"
    /\ \E rest \in UnderBase :
          LET base == lastCall.outs[1]
          IN  lastCall' = BaseCall(lastCall,
                              Url(base.scheme, base.netloc, base.path \o rest))
    /\ UNCHANGED <<lockVars, concVars, lastMatch, fetchVars, fs>>

BaseNext ==
    \/ GetWellKnownBase
    \/ GetWellKnownBaseUnder

SpecBase == ProvInit /\ [][BaseNext]_vars

(***************************************************************************)
(* The specification of WellKnownProvider.fetch_all_skills: one call, on   *)
(* every index, every answer to each entry's request and every order in    *)
(* which the concurrent entry fetches complete                             *)
(***************************************************************************)
\* an entry whose files value is a number
EntryGamma == IndexEntry(Some("gamma"), Some("Gamma from the index"), Some(JInt(5)))
AllIndexResponses ==
    IndexResponses
    \cup {Response(200, IndexObject(Some(skills))) :
            skills \in {<<EntryAlpha, EntryBeta>>, <<EntryBeta, EntryGamma>>,
                        <<EntryGamma, EntryBeta, EntryAlpha>>}}
AllDocResponses ==
    {NetworkError, Response(404, PlainText), Response(200, PlainText),
     Response(200, FrontMatter(Some("Alpha Skill"), Some("A skill"), None))}
AllNets ==
    {AllNet(index, docs, other) :
        index \in AllIndexResponses,
        docs \in [{"alpha", "beta", "gamma"} -> AllDocResponses],
        other \in FileResponses}
AllUrls == {DocsUrl, DocsSlashUrl, Url("https://", "[bad", <<>>)}

\* the number of entries of the index the server answers with
IndexLen(net) ==
    IF net.index.kind = "response" /\ net.index.body.t = "object"
    THEN Len(GetOr(net.index.body.v.skills, <<>>))
    ELSE 0

FetchAllSkills ==
    /\ lastCall.fn = "none"
    /\ \E url \in AllUrls, net \in AllNets :
          \E order \in Permutations(1..IndexLen(net)) :
             LET out == WKFetchAllSkills(url, net, order)
             IN  lastCall' = ThenCall(lastCall, "fetch_all_skills",
                                      [url |-> url, net |-> net, order |-> order],
                                      out.exc, out.result)
    /\ UNCHANGED <<lockVars, concVars, lastMatch, fetchVars, fs>>

\* file names an index entry may list, each with its characters
FileNameChars ==
    [f \in {"SKILL.md", "ref.md", ".hidden", "../secret.md", "/etc/passwd",
            "\\Windows", "file..name"} |->
       CASE f = "SKILL.md" -> <<"S", "K", "I", "L", "L", ".", "m", "d">>
         [] f = "ref.md" -> <<"r", "e", "f", ".", "m", "d">>
         [] f = ".hidden" -> <<".", "h", "i", "d", "d", "e", "n">>
         [] f = "../secret.md" -> <<".", ".", "/", "s", "e", "c", "r", "e", "t", ".", "m", "d">>
         [] f = "/etc/passwd" -> <<"/", "e", "t", "c", "/", "p", "a", "s", "s", "w", "d">>
         [] f = "\\Windows" -> <<"\\", "W", "i", "n", "d", "o", "w", "s">>
         [] f = "file..name" -> <<"f", "i", "l", "e", ".", ".", "n", "a", "m", "e">>]
FileNames == DOMAIN FileNameChars
\* the files lists of an entry: up to two names
FileLists == {<<>>} \cup {<<f>> : f \in FileNames} \cup {<<f, g>> : f \in FileNames, g \in FileNames}
ListedEntries ==
    {WellKnownSkillEntry(IndexEntry(Some("alpha"), Some("Alpha from the index"), Some(JArr(files)))) :
        files \in FileLists}

\* the text of a file that differs from that of the others
FileText == FrontMatter(Some("file"), None, None)

\* one call of fetch_skill_by_entry(base_url, entry): the server has an
\* answer for each file the entry lists
FetchSkillByEntry ==
    /\ lastCall.fn = "none"
    /\ \E url \in AllUrls, entry \in ListedEntries, doc \in AllDocResponses :
       \E other \in [{entry.files.v[i] : i \in 1..Len(entry.files.v)} \ {"SKILL.md"}
                        -> FileResponses \cup {Response(200, FileText)}] :
          LET net == [index |-> Unasked, doc |-> doc, file |-> other]
              out == WKFetchSkillByEntry(url, entry, net)
          IN  lastCall' = ThenCall(lastCall, "fetch_skill_by_entry",
                                   [url |-> url, entry |-> entry, net |-> Seen(net, out.asked)],
                                   out.exc, [result |-> out.result, requests |-> out.requests])
    /\ UNCHANGED <<lockVars, concVars, lastMatch, fetchVars, fs>>

AllNext ==
    \/ FetchAllSkills
    \/ FetchSkillByEntry

SpecAll == ProvInit /\ [][AllNext]_vars

(***************************************************************************)
(* skill_lock.py: fetch_skill_folder_hash.  A path is the sequence of its  *)
(* pieces: the separators "/" and "\", and runs of other characters        *)
(***************************************************************************)
PathTokens == {"/", "\\", "SKILL.md", "skills"}
SkillPaths == Paths(PathTokens, MaxPathTokens)

\* skill_path.replace('\\', '/')
ReplaceBackslash(path) == [i \in 1..Len(path) |-> IF path[i] = "\\" THEN "/" ELSE path[i]]

\* folder_path.rstrip('/')
RECURSIVE RStripToken(_, _)
RStripToken(path, token) ==
    IF path # <<>> /\ path[Len(path)] = token
    THEN RStripToken(SubSeq(path, 1, Len(path) - 1), token)
    ELSE path

\* (mutant) the normalisation without the replacement of backslashes
NormalizeSkillPath_KeepsBackslashes(skill_path) ==
    LET n == Len(skill_path)
        cut == IF n >= 2 /\ skill_path[n - 1] = "/" /\ skill_path[n] = "SKILL.md"
               THEN SubSeq(skill_path, 1, n - 2)
               ELSE IF n >= 1 /\ skill_path[n] = "SKILL.md" THEN SubSeq(skill_path, 1, n - 1)
               ELSE skill_path
    IN  RStripToken(cut, "/")

\* folder_path of fetch_skill_folder_hash: backslashes replaced, the suffix
\* /SKILL.md or SKILL.md removed, then rstrip('/')
NormalizeSkillPath(skill_path) ==
    LET replaced == ReplaceBackslash(skill_path)
        n == Len(replaced)
        cut == IF n >= 2 /\ replaced[n - 1] = "/" /\ replaced[n] = "SKILL.md"
               THEN SubSeq(replaced, 1, n - 2)
               ELSE IF n >= 1 /\ replaced[n] = "SKILL.md" THEN SubSeq(replaced, 1, n - 1)
               ELSE replaced
    IN  RStripToken(cut, "/")

\* an entry of the tree of the Trees API answer; sha is Optional
TreeEntry(type, path, sha) == [type |-> type, path |-> path, sha |-> sha]
\* the body of a Trees API answer: an object with the keys sha and tree, each Optional
TreeObject(sha, tree) == JObj([sha |-> sha, tree |-> tree])

Branches == <<"main", "master">>

SkillsFolder == <<"skills">>
NestedFolder == <<"skills", "/", "skills">>
\* the trees a branch may answer with
Trees(branch) ==
    {<<>>,
     <<TreeEntry("blob", SkillsFolder, Some(branch \o "-blob")),
       TreeEntry("tree", SkillsFolder, Some(branch \o "-skills")),
       TreeEntry("tree", NestedFolder, Some(branch \o "-nested"))>>,
     <<TreeEntry("tree", SkillsFolder, None)>>}
TreeBodies(branch) ==
    {IndexInvalidJson, JArr(<<>>)}
    \cup {TreeObject(sha, tree) : sha \in {None, Some(branch \o "-root")},
                                  tree \in {None} \cup {Some(t) : t \in Trees(branch)}}
TreeResponses(branch) ==
    {NetworkError, Response(404, IndexInvalidJson)}
    \cup {Response(200, b) : b \in TreeBodies(branch)}
TreeNets == [main : TreeResponses("main"), master : TreeResponses("master")]

\* one pass of the loop over branches: what the pass ends with ("continue",
\* "return" or "raise") and the value returned.  response.json() raises
\* JSONDecodeError, which is caught; data.get raises AttributeError when the
\* body is not an object, which is not
BranchPass(folder_path, response) ==
    IF response.kind = "error" THEN [end |-> "continue", value |-> None]
    ELSE IF response.status_code # 200 THEN [end |-> "continue", value |-> None]
    ELSE LET data == response.body
         IN  IF data.t = "invalid" THEN [end |-> "continue", value |-> None]
             ELSE IF data.t # "object" THEN [end |-> "raise", value |-> None]
             ELSE IF folder_path = <<>> THEN [end |-> "return", value |-> data.v.sha]
             ELSE LET tree == GetOr(data.v.tree, <<>>)
                      at == {i \in 1..Len(tree) :
                               tree[i].type = "tree" /\ tree[i].path = folder_path}
                  IN  IF at = {} THEN [end |-> "continue", value |-> None]
                      ELSE [end |-> "return",
                            value |-> tree[CHOOSE i \in at : \A j \in at : i <= j].sha]

\* the result of fetch_skill_folder_hash: the exception raised, the value
\* returned and the branches requested, in order
HashResult(exc, result, requests) == [exc |-> exc, result |-> result, requests |-> requests]

\* for branch in branches: ... ; return None
RECURSIVE TryBranches(_, _, _, _)
TryBranches(folder_path, net, branches, requested) ==
    IF branches = <<>> THEN HashResult("none", None, requested)
    ELSE LET branch == branches[1]
             pass == BranchPass(folder_path, net[branch])
         IN  CASE pass.end = "return" -> HashResult("none", pass.value, Append(requested, branch))
               [] pass.end = "raise" -> HashResult("AttributeError", None, Append(requested, branch))
               [] OTHER -> TryBranches(folder_path, net, Tail(branches), Append(requested, branch))

\* fetch_skill_folder_hash(owner_repo, skill_path)
FetchSkillFolderHashOf(skill_path, net) ==
    TryBranches(NormalizeSkillPath(skill_path), net, Branches, <<>>)

\* one call of fetch_skill_folder_hash
FetchSkillFolderHash ==
    /\ lastCall.fn = "none"
    /\ \E skill_path \in SkillPaths, net \in TreeNets :
          LET out == FetchSkillFolderHashOf(skill_path, net)
          IN  lastCall' = ThenCall(lastCall, "fetch_skill_folder_hash",
                                   [skill_path |-> skill_path, net |-> net],
                                   out.exc, [result |-> out.result, requests |-> out.requests])
    /\ UNCHANGED <<lockVars, concVars, lastMatch, fetchVars, fs>>

HashNext == FetchSkillFolderHash

SpecHash == ProvInit /\ [][HashNext]_vars

(***************************************************************************)
(* installer.py: sanitize_name.  A name is the sequence of its runs: a     *)
(* character and the number of times it is repeated, adjacent runs being   *)
(* of different characters                                                 *)
(***************************************************************************)
Run(c, n) == [c |-> c, n |-> n]
NameAlphabet == {"a", "A", ".", "-", "/", "\\"}
\* str.lower() of one character
LowerChar(c) == IF c = "A" THEN "a" ELSE c
\* the characters of [a-z0-9._]
Allowed(c) == c \in {"a", ".", "_", "u", "n", "m", "e", "d", "s", "k", "i", "l"}
Separator(c) == c \in {"/", "\\"}

\* the number of characters of a name
RECURSIVE NameLen(_)
NameLen(runs) == IF runs = <<>> THEN 0 ELSE runs[1].n + NameLen(Tail(runs))

\* adjacent runs of one character are one run
RECURSIVE Merge(_)
Merge(runs) ==
    IF Len(runs) < 2 THEN runs
    ELSE IF runs[1].c = runs[2].c
         THEN Merge(<<Run(runs[1].c, runs[1].n + runs[2].n)>> \o Tail(Tail(runs)))
         ELSE <<runs[1]>> \o Merge(Tail(runs))

\* the runs at the positions of K, in order
RECURSIVE KeepFrom(_, _, _)
KeepFrom(runs, K, i) ==
    IF i > Len(runs) THEN <<>>
    ELSE IF i \in K THEN <<runs[i]>> \o KeepFrom(runs, K, i + 1)
    ELSE KeepFrom(runs, K, i + 1)

\* name.lower()
LowerName(runs) == Merge([i \in 1..Len(runs) |-> Run(LowerChar(runs[i].c), runs[i].n)])

\* the segments that are exactly "..", the segments being what the
\* separators / and \ delimit, are removed, not preserved
RemoveDotDotSegments(runs) ==
    LET n == Len(runs)
        segment(i) == /\ runs[i] = Run(".", 2)
                      /\ i = 1 \/ Separator(runs[i - 1].c)
                      /\ i = n \/ Separator(runs[i + 1].c)
    IN  Merge(KeepFrom(runs, {i \in 1..n : ~segment(i)}, 1))

\* every run of characters outside [a-z0-9._] becomes a single hyphen
ReplaceRuns(runs) ==
    KeepFrom([i \in 1..Len(runs) |-> IF Allowed(runs[i].c) THEN runs[i] ELSE Run("-", 1)],
             {i \in 1..Len(runs) : Allowed(runs[i].c) \/ i = 1 \/ Allowed(runs[i - 1].c)}, 1)

\* runs of the hyphen are collapsed into one hyphen
CollapseHyphens(runs) ==
    [i \in 1..Len(runs) |-> IF runs[i].c = "-" THEN Run("-", 1) ELSE runs[i]]

\* leading and trailing '.' and '-' are stripped
StripDotsHyphens(runs) ==
    LET inner == {i \in 1..Len(runs) : runs[i].c \notin {".", "-"}}
    IN  IF inner = {} THEN <<>>
        ELSE SubSeq(runs, CHOOSE i \in inner : \A j \in inner : i <= j,
                          CHOOSE i \in inner : \A j \in inner : j <= i)

\* the first k characters of a name
RECURSIVE FirstChars(_, _)
FirstChars(runs, k) ==
    IF runs = <<>> \/ k = 0 THEN <<>>
    ELSE IF runs[1].n <= k THEN <<runs[1]>> \o FirstChars(Tail(runs), k - runs[1].n)
    ELSE <<Run(runs[1].c, k)>>

\* the name is truncated to 255 characters
MaxNameLength == 255
Truncate(runs) == FirstChars(runs, MaxNameLength)

UnnamedSkill ==
    <<Run("u", 1), Run("n", 2), Run("a", 1), Run("m", 1), Run("e", 1), Run("d", 1),
      Run("-", 1), Run("s", 1), Run("k", 1), Run("i", 1), Run("l", 2)>>

\* (mutant) sanitize_name without the replacement of the other characters
SanitizeName_KeepsSeparators(raw) ==
    LET result == Truncate(StripDotsHyphens(CollapseHyphens(
                      RemoveDotDotSegments(LowerName(raw)))))
    IN  IF result = <<>> THEN UnnamedSkill ELSE result

\* sanitize_name(raw): lower-cased, the .. segments removed, the runs of
\* other characters replaced by a hyphen, stripped, truncated; the fallback
\* unnamed-skill when nothing is left
SanitizeName(raw) ==
    LET replaced == CollapseHyphens(ReplaceRuns(RemoveDotDotSegments(LowerName(raw))))
        result == Truncate(StripDotsHyphens(replaced))
    IN  IF result = <<>> THEN UnnamedSkill ELSE result

(***************************************************************************)
(* The specification of sanitize_name: one call on a name, then one on     *)
(* its result                                                              *)
(***************************************************************************)
\* a run is short, or one character short of the truncation
RunLengths == {1, 2, MaxNameLength - 1}
NameRuns == {Run(c, n) : c \in NameAlphabet, n \in RunLengths}
\* ../../a, ..\..\a, /a/a and a/../a
TraversalNames ==
    {<<Run(".", 2), Run("/", 1), Run(".", 2), Run("/", 1), Run("a", 1)>>,
     <<Run(".", 2), Run("\\", 1), Run(".", 2), Run("\\", 1), Run("a", 1)>>,
     <<Run("/", 1), Run("a", 1), Run("/", 1), Run("a", 1)>>,
     <<Run("a", 1), Run("/", 1), Run(".", 2), Run("/", 1), Run("a", 1)>>}
RawNames ==
    TraversalNames
    \cup {runs \in Paths(NameRuns, MaxRuns) :
            \A i \in 1..Len(runs) - 1 : runs[i].c # runs[i + 1].c}

Sanitize ==
    /\ lastCall.fn = "none"
    /\ \E raw \in RawNames :
          lastCall' = ThenCall(lastCall, "sanitize_name", raw, "none", SanitizeName(raw))
    /\ UNCHANGED <<lockVars, concVars, lastMatch, fetchVars, fs>>

SanitizeAgain ==
    /\ lastCall.fn = "sanitize_name"
    /\ Len(lastCall.args) = 1
    /\ lastCall' = ThenCall(lastCall, "sanitize_name", lastCall.outs[1], "none",
                            SanitizeName(lastCall.outs[1]))
    /\ UNCHANGED <<lockVars, concVars, lastMatch, fetchVars, fs>>

NameNext ==
    \/ Sanitize
    \/ SanitizeAgain

SpecName == ProvInit /\ [][NameNext]_vars

(***************************************************************************)
(* installer.py: install_skill_for_agent.  The disk is what is at each     *)
(* skill path: nothing, a real directory holding a skill, or a symlink     *)
(***************************************************************************)
\* <base>/<dir>/<name>: base is the project directory or the home directory
SkillPath(base, dir, name) == [base |-> base, dir |-> dir, name |-> name]
NoPath == SkillPath("", "", <<>>)

Absent == [kind |-> "absent", holds |-> "", target |-> NoPath]
\* a real directory holding the files of the skill source `holds`
RealDir(holds) == [kind |-> "dir", holds |-> holds, target |-> NoPath]
Symlink(target) == [kind |-> "link", holds |-> "", target |-> target]

\* the agent-layout table: agent id -> relative install path
AgentLayout == ("amp" :> ".agents/skills") @@ ("claude-code" :> ".claude/skills")
\* the shared directory of the canonical copies
CanonicalSkillsDir == ".agents/skills"

\* Skill(name, path): the name and the source directory
Skill(name, path) == [name |-> name, path |-> path]
\* the skills a, A/a and ../a
Skills ==
    {Skill(<<Run("a", 1)>>, "source-1"),
     Skill(<<Run("A", 1), Run("/", 1), Run("a", 1)>>, "source-2"),
     Skill(<<Run(".", 2), Run("/", 1), Run("a", 1)>>, "source-3")}

InstallResult(success, mode, path, symlink_failed, error) ==
    [success |-> success, mode |-> mode, path |-> path,
     symlink_failed |-> symlink_failed, error |-> error]

\* the link at p leads back to p
RECURSIVE LeadsTo(_, _, _, _)
LeadsTo(disk, p, goal, steps) ==
    /\ steps > 0
    /\ p \in DOMAIN disk
    /\ disk[p].kind = "link"
    /\ \/ disk[p].target = goal
       \/ LeadsTo(disk, disk[p].target, goal, steps - 1)
ResolvesToItself(disk, p) == LeadsTo(disk, p, p, Cardinality(DOMAIN disk))

\* the outcome of an install: the result returned and the disk left
Installed(result, disk) == [result |-> result, disk |-> disk]

\* (mutant) the install without the guard on coinciding paths: the link is
\* made whatever the two paths are
InstallSkillForAgent_NoGuard(disk, skill, agent_id, is_global, mode, symlink_ok) ==
    IF agent_id \notin DOMAIN AgentLayout
    THEN Installed(InstallResult(FALSE, mode, NoPath, None,
                                 Some("Unknown agent: " \o agent_id)), disk)
    ELSE LET base == IF is_global THEN "home" ELSE "cwd"
             name == SanitizeName(skill.name)
             canonical == SkillPath(base, CanonicalSkillsDir, name)
             agent == SkillPath(base, AgentLayout[agent_id], name)
         IN  IF mode = "copy"
             THEN Installed(InstallResult(TRUE, "copy", agent, None, None),
                            [disk EXCEPT ![agent] = RealDir(skill.path)])
             ELSE Installed(InstallResult(TRUE, "symlink", agent, None, None),
                            [[disk EXCEPT ![canonical] = RealDir(skill.path)]
                                EXCEPT ![agent] = Symlink(canonical)])

\* (mutant) the install that makes the canonical directory before it looks
\* the agent up
InstallSkillForAgent_WritesFirst(disk, skill, agent_id, is_global, mode, symlink_ok) ==
    LET base == IF is_global THEN "home" ELSE "cwd"
        canonical == SkillPath(base, CanonicalSkillsDir, SanitizeName(skill.name))
        written == [disk EXCEPT ![canonical] = RealDir(skill.path)]
    IN  IF agent_id \notin DOMAIN AgentLayout
        THEN Installed(InstallResult(FALSE, mode, NoPath, None,
                                     Some("Unknown agent: " \o agent_id)), written)
        ELSE Installed(InstallResult(TRUE, mode, canonical, None, None), written)

\* install_skill_for_agent(skill, agent_id, is_global, cwd, mode); symlink_ok
\* tells whether the system lets the process create a symlink
InstallSkillForAgent(disk, skill, agent_id, is_global, mode, symlink_ok) ==
    IF agent_id \notin DOMAIN AgentLayout
    THEN Installed(InstallResult(FALSE, mode, NoPath, None,
                                 Some("Unknown agent: " \o agent_id)), disk)
    ELSE LET base == IF is_global THEN "home" ELSE "cwd"
             name == SanitizeName(skill.name)
             canonical == SkillPath(base, CanonicalSkillsDir, name)
             agent == SkillPath(base, AgentLayout[agent_id], name)
             \* mode=copy: an independent full copy in the agent directory,
             \* in place of whatever was there
             copied == [disk EXCEPT ![agent] = RealDir(skill.path)]
             \* a symlink at the canonical location that points at itself
             \* is deleted before the new content is written
             cleaned == IF ResolvesToItself(disk, canonical)
                        THEN [disk EXCEPT ![canonical] = Absent] ELSE disk
             stored == [cleaned EXCEPT ![canonical] = RealDir(skill.path)]
         IN  IF mode = "copy"
             THEN Installed(InstallResult(TRUE, "copy", agent, None, None), copied)
             ELSE IF canonical = agent
             THEN Installed(InstallResult(TRUE, "symlink", canonical, None, None), stored)
             ELSE IF symlink_ok
             THEN Installed(InstallResult(TRUE, "symlink", agent, None, None),
                            [stored EXCEPT ![agent] = Symlink(canonical)])
             ELSE Installed(InstallResult(TRUE, "symlink", agent, Some(TRUE), None),
                            [stored EXCEPT ![agent] = RealDir(skill.path)])

(***************************************************************************)
(* The specification of the installer: a disk as earlier installs, or a    *)
(* corrupted one, left it, then install_skill_for_agent calls              *)
(***************************************************************************)
InstallNames == {SanitizeName(skill.name) : skill \in Skills}
InstallPaths ==
    {SkillPath(base, dir, name) :
        base \in {"cwd", "home"}, dir \in {".agents/skills", ".claude/skills"},
        name \in InstallNames}
\* nothing installed but one skill of the project scope: its canonical location
\* empty, a directory or a link to itself, its agent location empty, a
\* directory, a link to the canonical location or a link to itself
DisksOf(base, name) ==
    LET canonical == SkillPath(base, ".agents/skills", name)
        agent == SkillPath(base, ".claude/skills", name)
    IN  {[p \in InstallPaths |->
            IF p = canonical THEN c ELSE IF p = agent THEN a ELSE Absent] :
            c \in {Absent, RealDir("source-0"), Symlink(canonical)},
            a \in {Absent, RealDir("source-0"), Symlink(canonical), Symlink(agent)}}
InitDisks == UNION {DisksOf("cwd", name) : name \in InstallNames}
\* how the agent location is to be made, and whether the platform lets the
\* call create symlinks
Attempts == {<<"symlink", TRUE>>, <<"symlink", FALSE>>, <<"copy", TRUE>>}
AgentIds == DOMAIN AgentLayout \cup {"nonexistent-agent"}

InstInit ==
    /\ LockInit /\ file = FileMissing /\ ConcIdle
    /\ lastMatch = MatchCall("none", Url("", "", <<>>), NoMatch, Url("", "", <<>>))
    /\ FetchIdle
    /\ lastCall = NoCall
    /\ fs \in InitDisks

\* the install calls made so far
InstallsMade == IF lastCall.fn = "none" THEN 0 ELSE lastCall.args[1].nth

Install ==
    /\ InstallsMade < MaxInstalls
    /\ \E skill \in Skills, agent_id \in AgentIds, is_global \in BOOLEAN,
          attempt \in Attempts :
          LET mode == attempt[1]
              symlink_ok == attempt[2]
              out == InstallSkillForAgent(fs, skill, agent_id, is_global, mode, symlink_ok)
          IN  /\ lastCall' = Calls("install_skill_for_agent",
                                   <<[nth |-> InstallsMade + 1, skill |-> skill,
                                      agent_id |-> agent_id, is_global |-> is_global,
                                      mode |-> mode, before |-> fs]>>,
                                   <<"none">>, <<out.result>>)
              /\ fs' = out.disk
    /\ UNCHANGED <<lockVars, concVars, lastMatch, fetchVars>>

InstNext == Install

SpecInst == InstInit /\ [][InstNext]_vars

(***************************************************************************)
(* source_parser.py: parse_source.  A source string is the sequence of its *)
(* tokens: names, the separators / and @, a dot, and the prefixes and      *)
(* suffixes of URLs; the string itself is their concatenation              *)
(***************************************************************************)
SourceRef(type, url, ref, subpath, skill_filter, local_path) ==
    [type |-> type, url |-> url, ref |-> ref, subpath |-> subpath,
     skill_filter |-> skill_filter, local_path |-> local_path]

\* the string the tokens spell
RECURSIVE Concat(_)
Concat(tokens) == IF tokens = <<>> THEN "" ELSE tokens[1] \o Concat(Tail(tokens))

\* the tokens up to the first sep, and those after it
RECURSIVE UpTo(_, _)
UpTo(tokens, sep) ==
    IF tokens = <<>> \/ tokens[1] = sep THEN <<>>
    ELSE <<tokens[1]>> \o UpTo(Tail(tokens), sep)
Beyond(tokens, sep) == SubSeq(tokens, Len(UpTo(tokens, sep)) + 2, Len(tokens))
Holds(tokens, t) == \E i \in 1..Len(tokens) : tokens[i] = t

\* the tokens that hold a colon: a drive letter, a URL scheme with its
\* host, the user and host of an SSH source
DriveTokens == {"C:"}
HostTokens == {"https://github.com", "https://gitlab.com", "https://git.example.com"}
SshTokens == {"git@github.com:"}
HoldsColon(tokens) ==
    \E i \in 1..Len(tokens) : tokens[i] \in DriveTokens \cup HostTokens \cup SshTokens

\* rule 1: starts with /, a drive letter, ./ or ../, or is exactly .
IsLocalPath(input) ==
    /\ input # <<>>
    /\ \/ input[1] = "/"
       \/ input[1] \in DriveTokens
       \/ input = <<".">>
       \/ Len(input) >= 2 /\ input[1] = "." /\ input[2] = "/"
       \/ Len(input) >= 3 /\ input[1] = "." /\ input[2] = "." /\ input[3] = "/"

\* (mutant) a trailing .git is kept
StripGit_KeepsGit(tokens) == tokens

\* the string without a trailing .git
StripGit(tokens) ==
    IF tokens # <<>> /\ tokens[Len(tokens)] = ".git"
    THEN SubSeq(tokens, 1, Len(tokens) - 1) ELSE tokens

\* (mutant) the URL read with everything after the tree marker as the ref
ParseHostUrl_WholeRestIsRef(type, host, path, marker) ==
    LET stripped == StripGit(path)
        owner == UpTo(Beyond(stripped, "/"), "/")
        afterOwner == Beyond(Beyond(stripped, "/"), "/")
        repo == UpTo(afterOwner, "/")
        rest == Beyond(afterOwner, "/")
        marked == Len(rest) > Len(marker) /\ SubSeq(rest, 1, Len(marker)) = marker
    IN  SourceRef(type, Some(host \o "/" \o Concat(owner) \o "/" \o Concat(repo) \o ".git"),
                  IF marked THEN Some(Concat(SubSeq(rest, Len(marker) + 1, Len(rest))))
                  ELSE None,
                  None, None, None)

\* rule 2: the path of a full github.com or gitlab.com URL, owner/repo
\* and, after the tree marker, the ref and the subpath
ParseHostUrl(type, host, path, marker) ==
    LET stripped == StripGit(path)
        owner == UpTo(Beyond(stripped, "/"), "/")
        afterOwner == Beyond(Beyond(stripped, "/"), "/")
        repo == UpTo(afterOwner, "/")
        rest == Beyond(afterOwner, "/")
        marked == Len(rest) > Len(marker) /\ SubSeq(rest, 1, Len(marker)) = marker
        afterMarker == SubSeq(rest, Len(marker) + 1, Len(rest))
        ref == UpTo(afterMarker, "/")
        subpath == Beyond(afterMarker, "/")
    IN  SourceRef(type, Some(host \o "/" \o Concat(owner) \o "/" \o Concat(repo) \o ".git"),
                  IF marked /\ ref # <<>> THEN Some(Concat(ref)) ELSE None,
                  IF marked /\ ref # <<>> /\ subpath # <<>> THEN Some(Concat(subpath)) ELSE None,
                  None, None)
IsHostUrl(input, host) ==
    /\ Len(input) >= 4
    /\ input[1] = host
    /\ input[2] = "/"
    /\ UpTo(Beyond(StripGit(Tail(input)), "/"), "/") # <<>>
    /\ UpTo(Beyond(Beyond(StripGit(Tail(input)), "/"), "/"), "/") # <<>>

\* the place of the last @ of the string, 0 when it has none
RECURSIVE LastAt(_)
LastAt(tokens) ==
    IF tokens = <<>> THEN 0
    ELSE IF tokens[Len(tokens)] = "@" THEN Len(tokens)
    ELSE LastAt(SubSeq(tokens, 1, Len(tokens) - 1))

\* rule 3: owner/repo[/subpath][@skill-filter].  The filter is what follows
\* the last @ when that @ comes after the owner/repo prefix; the two
\* segments before the subpath are not empty
FilterAt(input) ==
    LET at == LastAt(input)
        owner == UpTo(input, "/")
        repo == UpTo(Beyond(input, "/"), "/")
    IN  IF /\ at > Len(owner) + 2
           /\ at < Len(input)
           /\ owner # <<>>
           /\ UpTo(SubSeq(input, Len(owner) + 2, at - 1), "/") # <<>>
        THEN at ELSE 0
ShorthandBody(input) ==
    IF FilterAt(input) = 0 THEN input ELSE SubSeq(input, 1, FilterAt(input) - 1)
IsShorthand(input) ==
    LET body == ShorthandBody(input)
        owner == UpTo(body, "/")
        afterOwner == Beyond(body, "/")
        repo == UpTo(afterOwner, "/")
    IN  /\ ~HoldsColon(input)
        /\ owner # <<>>
        /\ repo # <<>>
        /\ Len(afterOwner) # Len(repo) + 1
ParseShorthand(input) ==
    LET body == ShorthandBody(input)
        owner == UpTo(body, "/")
        afterOwner == Beyond(body, "/")
        repo == UpTo(afterOwner, "/")
        subpath == Beyond(afterOwner, "/")
        at == FilterAt(input)
    IN  SourceRef("github",
                  Some("https://github.com/" \o Concat(owner) \o "/" \o Concat(repo) \o ".git"),
                  None,
                  IF subpath = <<>> THEN None ELSE Some(Concat(subpath)),
                  IF at = 0 THEN None ELSE Some(Concat(SubSeq(input, at + 1, Len(input)))),
                  None)

\* (mutant) the shorthand read without its filter: the @ and what follows
\* stay in the last segment
ParseSource_NoFilter(input) ==
    IF IsLocalPath(input)
    THEN SourceRef("local", None, None, None, None, Some(Concat(input)))
    ELSE IF HoldsColon(input) \/ UpTo(input, "/") = <<>> \/ UpTo(Beyond(input, "/"), "/") = <<>>
    THEN SourceRef("git", Some(Concat(input)), None, None, None, None)
    ELSE SourceRef("github",
                   Some("https://github.com/" \o Concat(UpTo(input, "/")) \o "/"
                        \o Concat(UpTo(Beyond(input, "/"), "/")) \o ".git"),
                   None,
                   IF Beyond(Beyond(input, "/"), "/") = <<>> THEN None
                   ELSE Some(Concat(Beyond(Beyond(input, "/"), "/"))),
                   None, None)

\* parse_source(input): the first rule that matches wins
ParseSource(input) ==
    IF IsLocalPath(input)
    THEN SourceRef("local", None, None, None, None, Some(Concat(input)))
    ELSE IF IsHostUrl(input, "https://github.com")
    THEN ParseHostUrl("github", "https://github.com", Tail(input), <<"tree", "/">>)
    ELSE IF IsHostUrl(input, "https://gitlab.com")
    THEN ParseHostUrl("gitlab", "https://gitlab.com", Tail(input), <<"-", "/", "tree", "/">>)
    ELSE IF IsShorthand(input)
    THEN ParseShorthand(input)
    ELSE SourceRef("git", Some(Concat(input)), None, None, None, None)

(***************************************************************************)
(* The specification of the source resolver: one parse_source call on a    *)
(* source string                                                           *)
(***************************************************************************)
SourceTokens == {"owner", "repo", "/", "@"}
\* the strings of the tests that are not spelled with the four tokens above
NamedSources ==
    {<<".">>, <<".", "/", "owner">>, <<".", ".", "/", "owner">>,
     <<"C:", "\\", "owner">>, <<".", "owner", "/", "repo">>,
     <<"git@github.com:", "owner", "/", "repo", ".git">>,
     <<"https://git.example.com", "/", "owner", "/", "repo", ".git">>,
     <<"git@github.com:", "owner", "/", "repo">>,
     <<"https://git.example.com", "/", "owner", "/", "repo">>,
     <<"https://github.com", "/", "owner", "/", "repo">>,
     <<"https://github.com", "/", "owner", "/", "repo", ".git">>,
     <<"https://github.com", "/", "owner", "/", "repo", "/", "tree", "/", "main">>,
     <<"https://github.com", "/", "owner", "/", "repo", "/", "tree", "/", "main", "/",
       "owner", "/", "repo">>,
     <<"https://gitlab.com", "/", "owner", "/", "repo">>,
     <<"https://gitlab.com", "/", "owner", "/", "repo", "/", "-", "/", "tree", "/", "main">>,
     <<"https://gitlab.com", "/", "owner", "/", "repo", "/", "-", "/", "tree", "/", "main",
       "/", "owner", "/", "repo">>}
\* the URLs on github.com and gitlab.com: the host, then / and a segment
\* some times over, then possibly .git
RECURSIVE Slashed(_)
Slashed(segs) ==
    IF segs = <<>> THEN <<>> ELSE <<"/", segs[1]>> \o Slashed(Tail(segs))
UrlSegments == {"owner", "repo", "tree", "-"}
UrlSources ==
    {<<host>> \o Slashed(segs) \o suffix :
        host \in {"https://github.com", "https://gitlab.com"},
        segs \in Paths(UrlSegments, MaxUrlSegs),
        suffix \in {<<>>, <<".git">>}}
Sources == Paths(SourceTokens, MaxSourceTokens) \cup NamedSources \cup UrlSources

ParseSourceCall ==
    /\ lastCall.fn = "none"
    /\ \E input \in Sources :
          lastCall' = ThenCall(lastCall, "parse_source", input, "none", ParseSource(input))
    /\ UNCHANGED <<lockVars, concVars, lastMatch, fetchVars, fs>>

ParseNext == ParseSourceCall

SpecParse == ProvInit /\ [][ParseNext]_vars

(***************************************************************************)
(* skills.py: discover_skills.  The directory searched is its root         *)
(* document, if it has one, and the documents of the skill directories     *)
(* below skills/ and skills/.curated/ in the order the walk meets them     *)
(***************************************************************************)
\* a SKILL.md with the name and the description of its front matter
SkillDoc(name, description, path) == [name |-> name, description |-> description, path |-> path]
\* the document has the front matter a skill requires
ValidDoc(doc) == doc.name # None /\ doc.description # None
\* the Skill parsed from a valid document
DiscoveredSkill(doc) ==
    [name |-> doc.name[1], description |-> doc.description[1], path |-> doc.path]

\* the valid documents as skills, one per name: the first met is kept
RECURSIVE CollectSkills(_, _)
CollectSkills(docs, seen_names) ==
    IF docs = <<>> THEN <<>>
    ELSE IF ~ValidDoc(docs[1]) \/ docs[1].name[1] \in seen_names
    THEN CollectSkills(Tail(docs), seen_names)
    ELSE <<DiscoveredSkill(docs[1])>>
         \o CollectSkills(Tail(docs), seen_names \cup {docs[1].name[1]})

\* (mutant) the discovery that keeps every valid document
DiscoverSkills_NoDedup(root, nested, full_depth) ==
    IF root # None /\ ValidDoc(root[1]) /\ ~full_depth
    THEN <<DiscoveredSkill(root[1])>>
    ELSE LET docs == root \o nested
         IN  [i \in 1..Len(SelectSeq(docs, ValidDoc)) |->
                 DiscoveredSkill(SelectSeq(docs, ValidDoc)[i])]

\* discover_skills(root_dir, full_depth): root is the root document, None
\* when the directory has none, nested the documents below it
DiscoverSkills(root, nested, full_depth) ==
    IF root # None /\ ValidDoc(root[1]) /\ ~full_depth
    THEN <<DiscoveredSkill(root[1])>>
    ELSE CollectSkills(root \o nested, {})

(***************************************************************************)
(* The specification of the discovery: one discover_skills call on a       *)
(* directory                                                               *)
(***************************************************************************)
\* what the front matter of a document may hold
FrontMatters ==
    {<<Some("skill-1"), Some("Skill 1")>>, <<Some("skill-2"), Some("Skill 2")>>,
     <<None, Some("No name")>>, <<Some("skill-1"), None>>}
NestedDirs == <<"skills/one", "skills/.curated/two", "skills/three", "skills/.curated/four">>
RootDocs == {None} \cup {Some(SkillDoc(m[1], m[2], ".")) : m \in FrontMatters}
NestedDocs ==
    {[i \in 1..Len(ms) |-> SkillDoc(ms[i][1], ms[i][2], NestedDirs[i])] :
        ms \in Paths(FrontMatters, MaxNested)}

Discover ==
    /\ lastCall.fn = "none"
    /\ \E root \in RootDocs, nested \in NestedDocs, full_depth \in BOOLEAN :
          lastCall' = ThenCall(lastCall, "discover_skills",
                               [root |-> root, nested |-> nested, full_depth |-> full_depth],
                               "none", DiscoverSkills(root, nested, full_depth))
    /\ UNCHANGED <<lockVars, concVars, lastMatch, fetchVars, fs>>

DiscNext == Discover

SpecDisc == ProvInit /\ [][DiscNext]_vars

(***************************************************************************)
(* skills.py: filter_skills.  A name, of a skill or asked for, is the      *)
(* sequence of its words: <<"Foo", "bar">> is the name "Foo bar"           *)
(***************************************************************************)
\* word.lower()
LowerWord(word) ==
    CASE word = "Foo" -> "foo"
      [] word = "FOO" -> "foo"
      [] word = "Bar" -> "bar"
      [] OTHER -> word
\* name.lower()
LowerWords(name) == [i \in 1..Len(name) |-> LowerWord(name[i])]

\* (mutant) the filter that matches a skill when the name asked for is the
\* first word of its name
FilterSkills_MatchesFirstWord(skills, names) ==
    LET asked(skill) ==
            \E i \in 1..Len(names) :
                LowerWords(names[i]) = LowerWords(SubSeq(skill.name, 1, 1))
    IN  SelectSeq(skills, asked)

\* filter_skills(skills, names): the skills whose name is, case aside, one
\* of the names asked for, in the order of skills
FilterSkills(skills, names) ==
    LET asked(skill) ==
            \E i \in 1..Len(names) : LowerWords(names[i]) = LowerWords(skill.name)
    IN  SelectSeq(skills, asked)

(***************************************************************************)
(* The specification of the filter: one filter_skills call                 *)
(***************************************************************************)
\* the names foo, bar, Foo bar and foo-bar of skills
DeclaredNames == {<<"foo">>, <<"bar">>, <<"Foo", "bar">>, <<"foo-bar">>}
\* the names foo, FOO, Foo, bar and foo bar a caller asks for
AskedNames == {<<"foo">>, <<"FOO">>, <<"Foo">>, <<"bar">>, <<"foo", "bar">>}
SkillSources == <<"source-1", "source-2", "source-3">>
SkillLists ==
    {[i \in 1..Len(ns) |-> Skill(ns[i], SkillSources[i])] : ns \in Paths(DeclaredNames, MaxNames)}
AskedLists == Paths(AskedNames, MaxNames)

Filter ==
    /\ lastCall.fn = "none"
    /\ \E skills \in SkillLists, names \in AskedLists :
          lastCall' = ThenCall(lastCall, "filter_skills",
                               [skills |-> skills, names |-> names],
                               "none", FilterSkills(skills, names))
    /\ UNCHANGED <<lockVars, concVars, lastMatch, fetchVars, fs>>

FilterNext == Filter

SpecFilter == ProvInit /\ [][FilterNext]_vars

(***************************************************************************)
(* Properties of the lock store.  They read the JSON document on disk      *)
(* directly, not through the functions of skill_lock.py.                   *)
(***************************************************************************)
IsObjectFile(f) == f.kind = "json" /\ f.data.t = "object"
Top(f) == f.data.v
HasInt(f, k) == k \in DOMAIN Top(f) /\ Top(f)[k].t = "int"
SkillsOf(f) == Top(f)["skills"].v

\* The file parses to an object with an integer version and a skills object
\* whose entries are objects, and its dismissed value, if any, is an object
WellFormed(f) ==
    /\ IsObjectFile(f)
    /\ HasInt(f, "version")
    /\ "skills" \in DOMAIN Top(f)
    /\ Top(f)["skills"].t = "object"
    /\ \A n \in DOMAIN SkillsOf(f) : SkillsOf(f)[n].t = "object"
    /\ "dismissed" \in DOMAIN Top(f) => Top(f)["dismissed"].t = "object"

ReadableAtCurrent(f) == WellFormed(f) /\ Top(f)["version"].v >= 3

\* An object whose integer version is below the current schema
Stale(f) == IsObjectFile(f) /\ HasInt(f, "version") /\ Top(f)["version"].v < 3

\* What the persisted entry d of an add_skill_to_lock call must hold, the
\* skill_path aside
AddedEntryHolds(d, n, a, preSkills, now) ==
    /\ d["source"] = JStr(a.source)
    /\ d["sourceType"] = JStr(a.source_type)
    /\ d["sourceUrl"] = JStr(a.source_url)
    /\ d["skillFolderHash"] = JStr(a.skill_folder_hash)
    /\ d["updatedAt"] = JStr(now)
    /\ d["installedAt"] = IF n \in DOMAIN preSkills
                          THEN Get(preSkills[n].v, "installedAt", JStr(""))
                          ELSE d["updatedAt"]

\* The skill_path a reader finds in the persisted entry d
PersistedSkillPath(d) == IF "skillPath" \in DOMAIN d THEN Some(d["skillPath"].v) ELSE None

AddOnReadable == last.op = "add" /\ ReadableAtCurrent(last.pre)

\* C1 as stated: after add_skill_to_lock(n, ...) on a lock file readable at
\* the current version, the file holds one entry for n with the given source,
\* source_type, source_url, skill_folder_hash and skill_path, the installed_at
\* of the previous entry for n if there was one and else the new updated_at,
\* and updated_at set to the time of the call; the other entries stay.
C1_AddCarriesGivenSkillPath ==
    AddOnReadable =>
        /\ last.exc = "none" /\ last.wrote /\ IsObjectFile(file)
        /\ DOMAIN SkillsOf(file) = DOMAIN SkillsOf(last.pre) \cup {last.name}
        /\ LET d == SkillsOf(file)[last.name].v
           IN  /\ AddedEntryHolds(d, last.name, last.args, SkillsOf(last.pre), last.now)
               /\ PersistedSkillPath(d) = last.args.skill_path

\* C1 amended: the same, except that the entry carries the given skill_path
\* only when it is a non-empty string; a null or empty skill_path is persisted
\* as an entry without the skillPath key.
C1_AddIsUpsert ==
    AddOnReadable =>
        /\ last.exc = "none" /\ last.wrote /\ IsObjectFile(file)
        /\ DOMAIN SkillsOf(file) = DOMAIN SkillsOf(last.pre) \cup {last.name}
        /\ LET d == SkillsOf(file)[last.name].v
           IN  /\ AddedEntryHolds(d, last.name, last.args, SkillsOf(last.pre), last.now)
               /\ IF last.args.skill_path \notin {None, Some("")}
                  THEN PersistedSkillPath(d) = last.args.skill_path
                  ELSE "skillPath" \notin DOMAIN d

\* C1 witness: a second add_skill_to_lock for a name first installed by an
\* earlier call keeps that call's installed_at and refreshes updated_at
C1_Witness ==
    /\ AddOnReadable
    /\ last.name \in DOMAIN SkillsOf(last.pre)
    /\ SkillsOf(last.pre)[last.name].v["installedAt"] = JStr("T1")
    /\ last.now = "T2"
    /\ SkillsOf(file)[last.name].v["installedAt"] = JStr("T1")
    /\ SkillsOf(file)[last.name].v["updatedAt"] = JStr("T2")

\* The states of the lock file that C2 lists
Corrupt(f) ==
    \/ f.kind \in {"missing", "unreadable", "badutf8", "badjson"}
    \/ f.kind = "json" /\ ~WellFormed(f)
    \/ Stale(f)

FreshEmptyLock ==
    [version |-> 3, skills |-> EmptyDict,
     dismissed |-> [find_skills_prompt |-> FALSE], last_selected_agents |-> None]

\* C2: read_skill_lock never raises, and returns a fresh empty SkillLockFile
\* for a missing, unreadable, undecodable, unparsable, non-object, ill-typed
\* or old-version lock file.
C2_ReadNeverRaises ==
    last.op = "read" =>
        /\ last.exc = "none"
        /\ Corrupt(last.pre) => last.lock = FreshEmptyLock

\* C3: every write of the lock file emits version CURRENT_VERSION (3),
\* whatever version the file declared before.
C3_WritesCurrentVersion ==
    last.wrote => IsObjectFile(file) /\ Top(file)["version"] = JInt(3)

\* C4: a lock file with a version below the current schema reads as an empty
\* lock, and after add_skill_to_lock, dismiss_prompt or save_selected_agents
\* the file holds only what that call set: nothing of the stale file survives.
C4_StaleFileIsWiped ==
    Stale(last.pre) =>
        /\ last.op \in {"read", "add", "dismiss", "save"} =>
              last.exc = "none" /\ last.lock = FreshEmptyLock
        /\ last.op \in {"add", "dismiss", "save"} =>
              /\ last.wrote /\ IsObjectFile(file)
              /\ Top(file)["version"] = JInt(3)
              /\ DOMAIN SkillsOf(file) = IF last.op = "add" THEN {last.name} ELSE {}
              /\ last.op = "add" =>
                    LET d == SkillsOf(file)[last.name].v
                    IN  /\ AddedEntryHolds(d, last.name, last.args, EmptyDict, last.now)
                        /\ d["installedAt"] = JStr(last.now)
              /\ Top(file)["dismissed"] = JObj([findSkillsPrompt |-> JBool(last.op = "dismiss")])
              /\ IF last.op = "save" /\ last.agents # <<>>
                 THEN Top(file)["lastSelectedAgents"] = JArr(last.agents)
                 ELSE "lastSelectedAgents" \notin DOMAIN Top(file)

\* C4 witness: add_skill_to_lock on a version 2 file that recorded skills, a
\* dismissed prompt and selected agents
C4_Witness ==
    /\ Stale(last.pre) /\ last.op = "add" /\ last.wrote
    /\ WellFormed(last.pre)
    /\ DOMAIN SkillsOf(last.pre) \ {last.name} # {}
    /\ "dismissed" \in DOMAIN Top(last.pre)
    /\ "lastSelectedAgents" \in DOMAIN Top(last.pre)

(***************************************************************************)
(* Properties of concurrent invocations                                    *)
(***************************************************************************)
AllDone == \A p \in Procs : procs[p].pc = "done"
Wrote(p) == \E i \in 1..Len(log) : log[i] = <<p, "write">>
At(p, kind) == CHOOSE i \in 1..Len(log) : log[i] = <<p, kind>>
LastWriter == log[Len(log)][1]
\* both invocations wrote, and both read before either wrote
BothReadFirst ==
    /\ \A p \in Procs : Wrote(p)
    /\ \A p, q \in Procs : At(p, "read") < At(q, "write")

\* The file one call alone makes of the content f
Alone(o, f, now) == WriteSkillLock(Changed(o, ReadSkillLock(f).lock, now))

\* two add_skill_to_lock calls for different names, neither recorded in file0
TwoNewSkills ==
    /\ ReadableAtCurrent(file0)
    /\ \A p \in Procs : procs[p].o.op = "add" /\ procs[p].o.name \notin DOMAIN SkillsOf(file0)
    /\ \A p, q \in Procs : p # q => procs[p].o.name # procs[q].o.name

HostOf(url) == IF Hostname(url) = None THEN "" ELSE Hostname(url)[1]

\* the places i where the part "spaces" is followed by two more parts
SpacesWithTwo(url) ==
    LET e == Elements(url) IN {i \in 1..Len(e) - 2 : e[i] = "spaces"}

\* the identifier huggingface/<owner>/<repo> from the two parts after place i
OwnerRepoAt(url, i) ==
    LET e == Elements(url) IN "huggingface/" \o e[i + 1] \o "/" \o e[i + 2]

HFMatchSpec(url) ==
    /\ url.scheme \in {"http://", "https://"}
    /\ HostOf(url) = "huggingface.co"
    /\ ContainsSpaces(url)
    /\ EndsWithSkillMd(url)

HFCalled == lastMatch.provider = "huggingface"

\* C9 as stated: HuggingFaceProvider.match(url) is true exactly when url starts
\* with http:// or https://, its host is huggingface.co, it contains /spaces/
\* and it ends case-insensitively in /skill.md; every matching URL gets the
\* identifier huggingface/<owner>/<repo> of the two path segments after
\* /spaces/, a non-matching URL gets none.
C9_EveryMatchHasOwnerRepo ==
    HFCalled =>
        /\ lastMatch.result.matches <=> HFMatchSpec(lastMatch.url)
        /\ lastMatch.result.matches =>
              \E i \in SpacesWithTwo(lastMatch.url) :
                 lastMatch.result.source_identifier = Some(OwnerRepoAt(lastMatch.url, i))
        /\ ~lastMatch.result.matches => lastMatch.result.source_identifier = None

\* C9 amended: the same match condition; a matching URL gets
\* huggingface/<owner>/<repo> from the two non-empty path segments that follow
\* the leftmost /spaces/ that has two, and the bare identifier huggingface when
\* no /spaces/ is followed by two non-empty segments.
C9_HFMatch ==
    HFCalled =>
        LET url == lastMatch.url
            e == Elements(url)
            good == {i \in SpacesWithTwo(url) : e[i + 1] # "" /\ e[i + 2] # ""}
        IN  /\ lastMatch.result.matches <=> HFMatchSpec(url)
            /\ lastMatch.result.matches =>
                  lastMatch.result.source_identifier =
                     IF good = {} THEN Some("huggingface")
                     ELSE Some(OwnerRepoAt(url, CHOOSE i \in good : \A j \in good : i <= j))
            /\ ~lastMatch.result.matches => lastMatch.result.source_identifier = None

\* C9 witness: https://HuggingFace.co/spaces/owner/repo/SKILL.MD matches
C9_Witness ==
    /\ HFCalled
    /\ lastMatch.url = Url("https://", "HuggingFace.co", <<"spaces", "owner", "repo", "SKILL.MD">>)
    /\ lastMatch.result = ProviderMatch(TRUE, Some("huggingface/owner/repo"))

MintlifyMatchSpec(url) ==
    /\ url.scheme \in {"http://", "https://"}
    /\ EndsWithSkillMd(url)
    /\ HostOf(url) \notin {"github.com", "gitlab.com", "huggingface.co",
                           "raw.githubusercontent.com"}

MintlifyCalled == lastMatch.provider = "mintlify"

\* C10 as stated (for the URLs urlparse accepts): MintlifyProvider.match(url)
\* is true exactly when url starts with http:// or https://, ends
\* case-insensitively in /skill.md and its host is none of the excluded hosts;
\* a matching URL has the identifier mintlify/<host> and is its own raw URL.
C10_IdentifierIsHost ==
    (MintlifyCalled /\ ~UrlparseRaises(lastMatch.url)) =>
        /\ lastMatch.result.matches <=> MintlifyMatchSpec(lastMatch.url)
        /\ lastMatch.result.matches =>
              /\ lastMatch.result.source_identifier = Some("mintlify/" \o HostOf(lastMatch.url))
              /\ lastMatch.raw = lastMatch.url

\* C10 amended: a URL urlparse rejects does not match; otherwise the match
\* condition is as stated, and a matching URL has the identifier
\* mintlify/<host>, or mintlify/com when it has no host, and is its own raw URL.
C10_MintlifyMatch ==
    MintlifyCalled =>
        LET url == lastMatch.url
        IN  /\ lastMatch.result.matches <=> (~UrlparseRaises(url) /\ MintlifyMatchSpec(url))
            /\ lastMatch.result.matches =>
                  /\ lastMatch.result.source_identifier =
                        Some("mintlify/" \o (IF HostOf(url) = "" THEN "com" ELSE HostOf(url)))
                  /\ lastMatch.raw = url
            /\ ~lastMatch.result.matches => lastMatch.result.source_identifier = None

\* C10 witness: http://docs.example.com/owner/skill.md matches
C10_Witness ==
    /\ MintlifyCalled
    /\ lastMatch.url = Url("http://", "docs.example.com", <<"owner", "skill.md">>)
    /\ lastMatch.result = ProviderMatch(TRUE, Some("mintlify/docs.example.com"))
    /\ lastMatch.raw = lastMatch.url

(***************************************************************************)
(* Properties of the provider registry and of fetching                     *)
(***************************************************************************)
\* the providers of a log of register() calls whose id no earlier call had
RECURSIVE FirstOfEachId(_, _)
FirstOfEachId(calls, ids) ==
    IF calls = <<>> THEN <<>>
    ELSE IF calls[1].id \in ids THEN FirstOfEachId(Tail(calls), ids)
    ELSE <<calls[1]>> \o FirstOfEachId(Tail(calls), ids \cup {calls[1].id})

\* C7: after any sequence of register calls the registry holds at most one
\* provider per id, in order of first registration: a call with an id already
\* present keeps the first instance and leaves the order unchanged.
C7_RegisterKeepsFirst ==
    /\ registry = FirstOfEachId(regLog, {})
    /\ \A i, j \in 1..Len(registry) : registry[i].id = registry[j].id => i = j

\* C7 witness: mintlify, huggingface, then a second mintlify instance
C7_Witness ==
    /\ regLog = <<Provider("mintlify", 0), Provider("huggingface", 1), Provider("mintlify", 1)>>
    /\ registry = <<Provider("mintlify", 0), Provider("huggingface", 1)>>

FetchRemoteCalled == lastFetch.op = "fetch_remote_skill"

\* the call ended as the outcome o does
EndedAs(o) ==
    /\ lastFetch.exc = o.exc
    /\ lastFetch.result = o.result
    /\ lastFetch.requests = o.requests

\* C6: fetch_remote_skill(url) delegates to the first provider, in registration
\* order, whose match(url) is true and returns its result even when null; the
\* well-known provider is not in the default registry and is consulted only
\* when no registered provider matches; when it does not match either, the
\* result is null and nothing is fetched.
C6_FetchRemoteDelegates ==
    /\ regLog = ImportLog => \A i \in 1..Len(registry) : registry[i].id # "well-known"
    /\ FetchRemoteCalled =>
          LET url == lastFetch.url
              matching == {i \in 1..Len(registry) : Match(registry[i], url).matches}
          IN  /\ matching # {} =>
                    \E i \in matching :
                       /\ \A j \in matching : i <= j
                       /\ lastFetch.provider = Some(registry[i])
                       /\ EndedAs(FetchSkill(registry[i], url, lastFetch.net))
              /\ (matching = {} /\ WKMatch(url).matches) =>
                    /\ lastFetch.provider = Some(wellknown_provider)
                    /\ EndedAs(WKFetchSkill(url, lastFetch.net))
              /\ (matching = {} /\ ~WKMatch(url).matches) =>
                    /\ lastFetch.provider = None
                    /\ lastFetch.exc = "none"
                    /\ lastFetch.result = None
                    /\ lastFetch.requests = <<>>

\* C6 witness: the Mintlify provider is delegated to, its fetch finds no
\* document and the null is returned
C6_Witness ==
    /\ FetchRemoteCalled
    /\ lastFetch.url = DocsSkillUrl
    /\ lastFetch.provider = Some(mintlify_provider)
    /\ lastFetch.net.doc = Response(404, PlainText)
    /\ lastFetch.requests = <<"https://docs.example.com/skill.md">>
    /\ lastFetch.result = None

FetchSkillCalled == lastFetch.op = "fetch_skill"

\* the request failed: a network error, or a status other than 200
Failed(answer) ==
    \/ answer.kind = "error"
    \/ answer.kind = "response" /\ answer.status_code # 200

\* the document arrived
Arrived(answer) == answer.kind = "response" /\ answer.status_code = 200

\* the document arrived and declares a non-empty name and description
DeclaresBoth(answer) ==
    /\ Arrived(answer)
    /\ TruthyStr(answer.body.name)
    /\ TruthyStr(answer.body.description)

\* C8: for each of the three providers fetch_skill returns null and does not
\* raise whenever a request fails with a network error, the status is not 200,
\* or the skill document lacks a non-empty name or description; a skill is
\* returned only when the document itself declares both.
C8_NullUnlessDocumentDeclaresBoth ==
    FetchSkillCalled =>
        /\ (\/ Failed(lastFetch.net.index)
            \/ Failed(lastFetch.net.doc)
            \/ Arrived(lastFetch.net.doc) /\ ~DeclaresBoth(lastFetch.net.doc))
              => (lastFetch.exc = "none" /\ lastFetch.result = None)
        /\ lastFetch.result # None => DeclaresBoth(lastFetch.net.doc)

(***************************************************************************)
(* Properties of WellKnownProvider.match(url)                              *)
(***************************************************************************)
WKMatchSpec(url) ==
    /\ url.scheme \in {"http://", "https://"}
    /\ HostOf(url) \notin {"github.com", "gitlab.com", "huggingface.co",
                           "raw.githubusercontent.com"}
    /\ ~EndsWithSkillMd(url)
    /\ Elements(url)[Len(Elements(url))] \notin {"repo.git", ".git"}

WKCalled == lastMatch.provider = "well-known"

\* C11 as stated (for the URLs urlparse accepts): WellKnownProvider.match(url)
\* is true exactly when url starts with http:// or https://, its host is none
\* of the excluded hosts, it does not end case-insensitively in /skill.md and
\* does not end in .git; the identifier of a matching URL is its host name.
C11_IdentifierIsHost ==
    (WKCalled /\ ~UrlparseRaises(lastMatch.url)) =>
        /\ lastMatch.result.matches <=> WKMatchSpec(lastMatch.url)
        /\ lastMatch.result.matches =>
              lastMatch.result.source_identifier = Some(HostOf(lastMatch.url))

\* C11 amended: a URL urlparse rejects does not match; otherwise the match
\* condition is as stated, and the identifier of a matching URL is its host
\* name, or the whole URL when it has no host.
C11_WKMatch ==
    WKCalled =>
        LET url == lastMatch.url
        IN  /\ lastMatch.result.matches <=> (~UrlparseRaises(url) /\ WKMatchSpec(url))
            /\ lastMatch.result.matches =>
                  lastMatch.result.source_identifier =
                     Some(IF HostOf(url) = "" THEN Str(url) ELSE HostOf(url))
            /\ ~lastMatch.result.matches => lastMatch.result.source_identifier = None

\* C11 witness: https://docs.example.com/owner matches, and
\* https://docs.example.com/owner/repo.git would not
C11_Witness ==
    /\ WKCalled
    /\ lastMatch.url = Url("https://", "docs.example.com", <<"owner">>)
    /\ lastMatch.result = ProviderMatch(TRUE, Some("docs.example.com"))
    /\ ~WKMatch(Url("https://", "docs.example.com", <<"owner", "repo.git">>)).matches

(***************************************************************************)
(* Properties of the well-known base                                       *)
(***************************************************************************)
\* the path holds /.well-known/skills from segment i on
HoldsWellKnownAt(path, i) ==
    /\ i < Len(path)
    /\ path[i] = ".well-known"
    /\ path[i + 1] \in {"skills", "skills-v2"}

\* the path without its trailing slashes
NoTrailingSlash(path) ==
    LET k == CHOOSE k \in 0..Len(path) :
                /\ k = 0 \/ path[k] # ""
                /\ \A j \in (k + 1)..Len(path) : path[j] = ""
    IN  SubSeq(path, 1, k)

\* the base the claim gives for the URL u
BaseAsStated(u) ==
    LET at == {i \in 1..Len(u.path) : HoldsWellKnownAt(u.path, i)}
    IN  IF at = {}
        THEN Url(u.scheme, u.netloc, NoTrailingSlash(u.path) \o <<".well-known", "skills">>)
        ELSE LET i == CHOOSE i \in at : \A j \in at : i <= j
             IN  Url(u.scheme, u.netloc, SubSeq(u.path, 1, i) \o <<"skills">>)

BaseCalled == lastCall.fn = "_get_well_known_base"

\* C12: for every http(s) URL u (that urlparse accepts) the well-known base is
\* <scheme>://<host><path without trailing slash>/.well-known/skills when the
\* path does not contain /.well-known/skills, and otherwise u cut right after
\* the first /.well-known/skills; the base of the base, and of a skill URL
\* under the base, is the same base, so all resolve to one index.json.
C12_WellKnownBase ==
    BaseCalled =>
        /\ \A n \in 1..Len(lastCall.args) :
              lastCall.excs[n] = "none" => lastCall.outs[n] = BaseAsStated(lastCall.args[n])
        /\ Len(lastCall.args) = 2 =>
              /\ lastCall.excs[2] = "none"
              /\ lastCall.outs[2] = lastCall.outs[1]
              /\ Str(lastCall.outs[2]) \o "/index.json" = Str(lastCall.outs[1]) \o "/index.json"

\* C12 witness: the site URL http://docs.example.com/docs/ and the skill URL
\* http://docs.example.com/docs/.well-known/skills/alpha have one base
C12_Witness ==
    /\ BaseCalled
    /\ lastCall.args = <<Url("http://", "docs.example.com", <<"docs", "">>),
                         Url("http://", "docs.example.com",
                             <<"docs", ".well-known", "skills", "alpha">>)>>
    /\ Str(lastCall.outs[1]) = "http://docs.example.com/docs/.well-known/skills"
    /\ lastCall.outs[2] = lastCall.outs[1]

(***************************************************************************)
(* Properties of fetch_all_skills                                          *)
(***************************************************************************)
AllCalled == lastCall.fn = "fetch_all_skills"

\* the entries of the index the server answered with; none when the index
\* is missing, empty or cannot be fetched
IndexEntries(net) ==
    IF net.index.kind = "response" /\ net.index.status_code = 200 /\ net.index.body.t = "object"
    THEN LET skills == GetOr(net.index.body.v.skills, <<>>)
         IN  [i \in 1..Len(skills) |-> WellKnownSkillEntry(skills[i])]
    ELSE <<>>

\* the skills of the entries whose own fetch succeeded, in the order of entries
RECURSIVE SucceededSkills(_, _, _)
SucceededSkills(url, entries, net) ==
    IF entries = <<>> THEN <<>>
    ELSE LET own == WKFetchSkillByEntry(url, entries[1], EntryNet(net, entries[1]))
             rest == SucceededSkills(url, Tail(entries), net)
         IN  IF own.exc = "none" /\ own.result # None THEN <<own.result[1]>> \o rest ELSE rest

\* C13 (as stated): fetch_all_skills(url) raises nothing and returns exactly
\* the skills of the index entries whose own fetch succeeded, in index order
\* whatever the order in which the fetches complete; an entry whose fetch
\* fails in any way takes no sibling's result away, and a missing, empty or
\* unfetchable index gives the empty list.
C13_ReturnsSucceededEntries ==
    AllCalled =>
        LET a == lastCall.args[1]
        IN  ~UrlparseRaises(a.url) =>
               /\ lastCall.excs[1] = "none"
               /\ lastCall.outs[1] = SucceededSkills(a.url, IndexEntries(a.net), a.net)

(***************************************************************************)
(* Properties of the files of a well-known skill                           *)
(***************************************************************************)
EntryCalled == lastCall.fn = "fetch_skill_by_entry"

\* the check of the claim on a listed file name: it does not start with '/'
\* or '\' and does not contain '..'
PassesFileCheck(f) ==
    LET c == FileNameChars[f]
    IN  /\ c[1] \notin {"/", "\\"}
        /\ ~\E i \in 1..Len(c) - 1 : c[i] = "." /\ c[i + 1] = "."

\* C14 (as stated): a file name listed in the index entry that starts with
\* '/' or '\' or contains '..' is never requested from the server and never
\* becomes a key of the files map of the returned skill.
C14_FailingNamesNeverFetched ==
    EntryCalled =>
        LET a == lastCall.args[1]
            out == lastCall.outs[1]
            listed == a.entry.files.v
            base == Str(WKGetWellKnownBase(a.url)) \o "/" \o a.entry.name
        IN  \A i \in 1..Len(listed) :
               ~PassesFileCheck(listed[i]) =>
                  /\ \A r \in 1..Len(out.requests) :
                        out.requests[r] # base \o "/" \o listed[i]
                  /\ out.result # None => listed[i] \notin DOMAIN out.result[1].files

(***************************************************************************)
(* Properties of fetch_skill_folder_hash                                   *)
(***************************************************************************)
HashCalled == lastCall.fn = "fetch_skill_folder_hash"

\* the skill folder of the claim: backslashes turned into forward slashes,
\* a trailing SKILL.md removed, then the trailing slashes
StatedFolder(skill_path) ==
    LET p == [i \in 1..Len(skill_path) |-> IF skill_path[i] = "\\" THEN "/" ELSE skill_path[i]]
        q == IF p # <<>> /\ p[Len(p)] = "SKILL.md" THEN SubSeq(p, 1, Len(p) - 1) ELSE p
        k == CHOOSE k \in 0..Len(q) :
                /\ k = 0 \/ q[k] # "/"
                /\ \A j \in (k + 1)..Len(q) : q[j] = "/"
    IN  SubSeq(q, 1, k)

\* the branch answered 200 with a tree
AnsweredTree(response) ==
    response.kind = "response" /\ response.status_code = 200 /\ response.body.t = "object"

\* the tree-type entries of the answer whose path equals the folder
FolderEntries(response, folder) ==
    IF AnsweredTree(response)
    THEN LET tree == GetOr(response.body.v.tree, <<>>)
         IN  {i \in 1..Len(tree) : tree[i].type = "tree" /\ tree[i].path = folder}
    ELSE {}

\* the SHA the answer of a branch yields (None when it yields none): the
\* root tree's for a skill at repository root, else the folder's tree entry's
Yields(response, root, folder) ==
    IF ~AnsweredTree(response) THEN None
    ELSE IF root THEN response.body.v.sha
    ELSE LET at == FolderEntries(response, folder)
         IN  IF at = {} THEN None
             ELSE GetOr(response.body.v.tree, <<>>)[CHOOSE i \in at : \A j \in at : i <= j].sha

\* the branches are queried main first, master second, each at most once
QueriedInOrder(requests) == requests \in {<<"main">>, <<"main", "master">>}

\* master is queried only when main answered non-200, failed, or has no
\* tree-type entry for the folder
MasterOnlyAfterMain(a, out, folder) ==
    Len(out.requests) = 2 =>
       \/ ~AnsweredTree(a.net.main)
       \/ FolderEntries(a.net.main, folder) = {}

\* the skill paths the claim names as those of a skill at repository root
NamedRoot(skill_path) == skill_path \in {<<>>, <<"SKILL.md">>, <<"/", "SKILL.md">>}

\* C15 (as stated): main is queried first and master second, each at most
\* once; the SHA main yields is returned whenever it yields one; master is
\* queried only when main answered non-200, failed or has no tree-type entry
\* for the folder; null is returned only when neither branch yields a SHA;
\* for skill_path empty, SKILL.md or /SKILL.md the SHA is the root tree's,
\* otherwise that of the tree entry of the normalised folder.
C15_AsStated ==
    HashCalled =>
        LET a == lastCall.args[1]
            out == lastCall.outs[1]
            root == NamedRoot(a.skill_path)
            folder == StatedFolder(a.skill_path)
            main == Yields(a.net.main, root, folder)
            master == Yields(a.net.master, root, folder)
        IN  /\ QueriedInOrder(out.requests)
            /\ main # None => lastCall.excs[1] = "none" /\ out.result = main
            /\ MasterOnlyAfterMain(a, out, folder)
            /\ (lastCall.excs[1] = "none" /\ out.result = None) => main = None /\ master = None
            /\ out.result # None => out.result \in {main, master}

\* C15 (amended): main is queried first and master second, each at most once;
\* the SHA main yields is returned whenever it yields one; master is queried
\* only when main answered non-200, failed or has no tree-type entry for the
\* folder; null is returned only when no branch that was queried yields a
\* SHA; the folder is skill_path with backslashes turned into slashes and a
\* trailing SKILL.md and trailing slashes removed, and the SHA is the root
\* tree's when that folder is empty, otherwise that of its tree entry.
C15_FolderHash ==
    HashCalled =>
        LET a == lastCall.args[1]
            out == lastCall.outs[1]
            folder == StatedFolder(a.skill_path)
            root == folder = <<>>
            yields == [b \in {"main", "master"} |-> Yields(a.net[b], root, folder)]
        IN  /\ QueriedInOrder(out.requests)
            /\ yields["main"] # None => lastCall.excs[1] = "none" /\ out.result = yields["main"]
            /\ MasterOnlyAfterMain(a, out, folder)
            /\ (lastCall.excs[1] = "none" /\ out.result = None) =>
                  \A r \in 1..Len(out.requests) : yields[out.requests[r]] = None
            /\ out.result # None => out.result = yields[out.requests[Len(out.requests)]]

\* C15 witness: for skills\SKILL.md main answers 404 and master's tree holds
\* the folder skills, whose SHA is returned after one query of each branch
C15_Witness ==
    /\ HashCalled
    /\ lastCall.args[1].skill_path = <<"skills", "\\", "SKILL.md">>
    /\ lastCall.args[1].net.main = Response(404, IndexInvalidJson)
    /\ lastCall.outs[1] = [result |-> Some("master-skills"), requests |-> <<"main", "master">>]

(***************************************************************************)
(* Properties of sanitize_name                                             *)
(***************************************************************************)
SanitizeCalled == lastCall.fn = "sanitize_name"

\* the name holds the character c
HoldsChar(runs, c) == \E i \in 1..Len(runs) : runs[i].c = c
\* the name holds two dots in a row
HoldsDotDot(runs) ==
    \/ \E i \in 1..Len(runs) : runs[i].c = "." /\ runs[i].n >= 2
    \/ \E i \in 1..Len(runs) - 1 : runs[i].c = "." /\ runs[i + 1].c = "."
\* the name is empty or made of special characters only
OnlySpecial(runs) == \A i \in 1..Len(runs) : runs[i].c \in {".", "-", "/", "\\"}

\* what the claim says of every output but the absence of '..'
SafeComponent(raw, out) ==
    /\ ~HoldsChar(out, "/")
    /\ ~HoldsChar(out, "\\")
    /\ NameLen(out) >= 1
    /\ NameLen(out) <= 255
    /\ OnlySpecial(raw) => out = UnnamedSkill

\* C18 (as stated): the output of sanitize_name contains no '/', no '\' and
\* no '..', is non-empty and at most 255 characters long, and is exactly
\* unnamed-skill when the input is empty or has special characters only.
C18_NoDotDotAnywhere ==
    SanitizeCalled =>
        \A n \in 1..Len(lastCall.args) :
            /\ SafeComponent(lastCall.args[n], lastCall.outs[n])
            /\ ~HoldsDotDot(lastCall.outs[n])

\* C18 (amended): the output of sanitize_name contains no '/' and no '\',
\* does not begin with '.' (so it is never '..', though two dots may remain
\* inside it), is non-empty and at most 255 characters long, and is exactly
\* unnamed-skill when the input is empty or has special characters only.
C18_SafeComponent ==
    SanitizeCalled =>
        \A n \in 1..Len(lastCall.args) :
            /\ SafeComponent(lastCall.args[n], lastCall.outs[n])
            /\ lastCall.outs[n][1].c # "."

\* C18 witness: a/../a is sanitized to a-a
C18_Witness ==
    /\ SanitizeCalled
    /\ lastCall.args[1] = <<Run("a", 1), Run("/", 1), Run(".", 2), Run("/", 1), Run("a", 1)>>
    /\ lastCall.outs[1] = <<Run("a", 1), Run("-", 1), Run("a", 1)>>

\* C19 (as stated): sanitize_name(sanitize_name(x)) = sanitize_name(x) for
\* every x, also when the sanitized form is cut at 255 characters or is
\* the fallback unnamed-skill.
C19_Idempotent ==
    (SanitizeCalled /\ Len(lastCall.args) = 2) => lastCall.outs[2] = lastCall.outs[1]

(***************************************************************************)
(* Properties of the installer                                             *)
(***************************************************************************)
InstallCalled == lastCall.fn = "install_skill_for_agent"

\* the canonical and the agent-facing path of an install call
CanonicalPathOf(a) ==
    SkillPath(IF a.is_global THEN "home" ELSE "cwd", ".agents/skills", SanitizeName(a.skill.name))
AgentPathOf(a) ==
    SkillPath(IF a.is_global THEN "home" ELSE "cwd", AgentLayout[a.agent_id],
              SanitizeName(a.skill.name))

\* the paths the call wrote: those that changed, and the path of the result
WrittenPaths(a, r) == {p \in DOMAIN fs : fs[p] # a.before[p]} \cup {r.path}

C17_UnknownAgent ==
    (InstallCalled /\ lastCall.args[1].agent_id \notin DOMAIN AgentLayout) =>
        /\ lastCall.excs[1] = "none"
        /\ ~lastCall.outs[1].success
        /\ lastCall.outs[1].error = Some("Unknown agent: " \o lastCall.args[1].agent_id)
        /\ fs = lastCall.args[1].before

\* C17 witness: the install for nonexistent-agent fails on a disk that
\* holds an earlier install, which is still there
C17_Witness ==
    /\ InstallCalled
    /\ lastCall.args[1].agent_id = "nonexistent-agent"
    /\ ~lastCall.outs[1].success
    /\ \E p \in DOMAIN fs : fs[p].kind = "link" /\ fs[fs[p].target].kind = "dir"

(***************************************************************************)
(* Properties of the source resolver                                       *)
(***************************************************************************)
ParseCalled == lastCall.fn = "parse_source"

\* a segment of a name: tokens other than the separators, and not . or ..
NameSegment(tokens) ==
    /\ tokens # <<>>
    /\ \A i \in 1..Len(tokens) : tokens[i] \in {"owner", "repo", "."}
    /\ \E i \in 1..Len(tokens) : tokens[i] # "."
\* the segments of a path: what lies between its slashes
RECURSIVE AllSegments(_)
AllSegments(tokens) ==
    NameSegment(UpTo(tokens, "/"))
    /\ (Len(UpTo(tokens, "/")) < Len(tokens) => AllSegments(Beyond(tokens, "/")))

\* the parts of a string read as owner/repo[/subpath][@filter]
PartsOf(input) ==
    LET body == UpTo(input, "@")
        afterOwner == Beyond(body, "/")
    IN  [owner |-> UpTo(body, "/"),
         repo |-> UpTo(afterOwner, "/"),
         subpath |-> Beyond(afterOwner, "/"),
         slashed |-> Len(afterOwner) > Len(UpTo(afterOwner, "/")),
         filter |-> Beyond(input, "@"),
         filtered |-> Holds(input, "@")]
\* a valid shorthand: two name segments, then possibly a subpath of name
\* segments, then possibly @ and a name
ValidShorthand(input) ==
    LET parts == PartsOf(input)
    IN  /\ NameSegment(parts.owner)
        /\ NameSegment(parts.repo)
        /\ parts.slashed => AllSegments(parts.subpath)
        /\ parts.filtered => NameSegment(parts.filter)

GitHubUrlOf(parts) ==
    "https://github.com/" \o Concat(parts.owner) \o "/" \o Concat(parts.repo) \o ".git"

\* C20 as stated: for every valid shorthand parse_source yields type=github
\* and url = https://github.com/<owner>/<repo>.git; a suffix @name sets
\* skill_filter to name and leaves subpath null, and a /subpath suffix sets
\* subpath to the remaining segments.
C20_AsStated ==
    (ParseCalled /\ ValidShorthand(lastCall.args[1])) =>
        LET parts == PartsOf(lastCall.args[1])
            ref == lastCall.outs[1]
        IN  /\ ref.type = "github"
            /\ ref.url = Some(GitHubUrlOf(parts))
            /\ parts.filtered =>
                  ref.skill_filter = Some(Concat(parts.filter)) /\ ref.subpath = None
            /\ parts.slashed => ref.subpath = Some(Concat(parts.subpath))

\* C20 (amended): for every valid shorthand parse_source yields type=github
\* and url = https://github.com/<owner>/<repo>.git; a suffix @name sets
\* skill_filter to name, and leaves subpath null when no /subpath comes
\* before it; a /subpath suffix sets subpath to the remaining segments, up
\* to the @filter if there is one.
C20_Shorthand ==
    (ParseCalled /\ ValidShorthand(lastCall.args[1])) =>
        LET parts == PartsOf(lastCall.args[1])
            ref == lastCall.outs[1]
        IN  /\ lastCall.excs[1] = "none"
            /\ ref.type = "github"
            /\ ref.url = Some(GitHubUrlOf(parts))
            /\ parts.filtered => ref.skill_filter = Some(Concat(parts.filter))
            /\ (parts.filtered /\ ~parts.slashed) => ref.subpath = None
            /\ parts.slashed => ref.subpath = Some(Concat(parts.subpath))

\* C20 witness: owner/repo/owner@repo was parsed into the repository
\* owner/repo, the subpath owner and the filter repo
C20_Witness ==
    /\ ParseCalled
    /\ lastCall.args[1] = <<"owner", "/", "repo", "/", "owner", "@", "repo">>
    /\ lastCall.outs[1].type = "github"
    /\ lastCall.outs[1].url = Some("https://github.com/owner/repo.git")
    /\ lastCall.outs[1].subpath = Some("owner")
    /\ lastCall.outs[1].skill_filter = Some("repo")

\* the string ends in .git, once: it is a prefix of the input, or the
\* github.com address of one, that does not end in .git, and then .git
EndsInGitOnce(url, input) ==
    \E k \in 0..Len(input) :
        /\ k > 0 => input[k] # ".git"
        /\ url \in {Some(Concat(SubSeq(input, 1, k)) \o ".git"),
                    Some("https://github.com/" \o Concat(SubSeq(input, 1, k)) \o ".git")}

\* C21 as stated: every SourceRef parse_source returns with type github,
\* gitlab or git has a url that ends in .git, and not in .git.git.
C21_AsStated ==
    (ParseCalled /\ lastCall.outs[1].type \in {"github", "gitlab", "git"}) =>
        EndsInGitOnce(lastCall.outs[1].url, lastCall.args[1])

\* C21 (amended): every SourceRef parse_source returns with type github or
\* gitlab has a url that ends in .git, once; one of type git has the input
\* unchanged as its url, which ends in .git exactly when the input does.
C21_UrlEndsInGit ==
    ParseCalled =>
        LET input == lastCall.args[1]
            ref == lastCall.outs[1]
        IN  /\ ref.type \in {"github", "gitlab"} => EndsInGitOnce(ref.url, input)
            /\ ref.type = "git" =>
                  /\ ref.url = Some(Concat(input))
                  /\ EndsInGitOnce(ref.url, input) <=>
                        (input # <<>> /\ input[Len(input)] = ".git"
                         /\ (Len(input) > 1 => input[Len(input) - 1] # ".git"))

\* C21 witness: https://github.com/owner/repo.git was parsed and its url is
\* the input, .git not doubled
C21_Witness ==
    /\ ParseCalled
    /\ lastCall.args[1] = <<"https://github.com", "/", "owner", "/", "repo", ".git">>
    /\ lastCall.outs[1].type = "github"
    /\ lastCall.outs[1].url = Some("https://github.com/owner/repo.git")

\* a full URL on github.com or gitlab.com: the host, then / and a segment
\* at least twice over, a trailing .git aside
FullUrl(input) ==
    LET path == StripGit(input)
    IN  /\ Len(path) >= 5
        /\ path[1] \in {"https://github.com", "https://gitlab.com"}
        /\ Len(path) % 2 = 1
        /\ \A i \in 2..Len(path) :
              IF i % 2 = 0 THEN path[i] = "/" ELSE path[i] \notin {"/", "@", ".git"}
\* its path segments
UrlSegs(input) == [n \in 1..((Len(StripGit(input)) - 1) \div 2) |-> input[2 * n + 1]]
\* the segments of the tree marker of the host
MarkerOf(host) == IF host = "https://github.com" THEN <<"tree">> ELSE <<"-", "tree">>
\* the place of the ref among the segments, 0 when the URL has no
\* marker followed by a ref
RefPlace(input) ==
    LET segs == UrlSegs(input)
        marker == MarkerOf(input[1])
    IN  IF Len(segs) > 2 + Len(marker) /\ SubSeq(segs, 3, 2 + Len(marker)) = marker
        THEN 3 + Len(marker) ELSE 0

DiscoverCalled == lastCall.fn = "discover_skills"
\* the documents of the directory, the root document first
AllDocs(a) == a.root \o a.nested
\* the first valid document of the name
FirstOfName(docs, name) ==
    LET at == {i \in 1..Len(docs) : ValidDoc(docs[i]) /\ docs[i].name = Some(name)}
    IN  docs[CHOOSE i \in at : \A j \in at : i <= j]
ValidNames(docs) == {docs[i].name[1] : i \in {j \in 1..Len(docs) : ValidDoc(docs[j])}}

\* C23: discover_skills never returns two skills of one name; with a valid
\* root document and full_depth=false it returns the root skill alone; with
\* full_depth=true, or without a root document, it returns one skill for
\* each name a valid document declares, the one of the first such document,
\* the root document first, and nothing for an invalid document.
C23_Discovery ==
    DiscoverCalled =>
        LET a == lastCall.args[1]
            skills == lastCall.outs[1]
            docs == AllDocs(a)
        IN  /\ lastCall.excs[1] = "none"
            /\ \A i, j \in 1..Len(skills) : skills[i].name = skills[j].name => i = j
            /\ (a.root # None /\ ValidDoc(a.root[1]) /\ ~a.full_depth) =>
                  skills = <<DiscoveredSkill(a.root[1])>>
            /\ (a.full_depth \/ a.root = None) =>
                  /\ {skills[i].name : i \in 1..Len(skills)} = ValidNames(docs)
                  /\ \A i \in 1..Len(skills) :
                        skills[i] = DiscoveredSkill(FirstOfName(docs, skills[i].name))

\* C23 witness: full_depth=true on a directory whose root document and a
\* nested document declare one name, and another nested document is
\* invalid; the skill of the root document is the only one of that name
C23_Witness ==
    /\ DiscoverCalled
    /\ lastCall.args[1].full_depth
    /\ lastCall.args[1].root # None
    /\ ValidDoc(lastCall.args[1].root[1])
    /\ \E i \in 1..Len(lastCall.args[1].nested) :
          lastCall.args[1].nested[i].name = lastCall.args[1].root[1].name
          /\ ValidDoc(lastCall.args[1].nested[i])
    /\ \E i \in 1..Len(lastCall.args[1].nested) : ~ValidDoc(lastCall.args[1].nested[i])
    /\ \E i \in 1..Len(lastCall.outs[1]) : lastCall.outs[1][i].path = "."
    /\ Len(lastCall.outs[1]) = 1

(***************************************************************************)
(* Properties of the filter                                                *)
(***************************************************************************)
FilterCalled == lastCall.fn = "filter_skills"
\* the two names have as many words, and word by word one letter case aside
\* the same letters
SameIgnoringCase(n1, n2) ==
    /\ Len(n1) = Len(n2)
    /\ \A i \in 1..Len(n1) : LowerWord(n1[i]) = LowerWord(n2[i])
IsAsked(skill, names) == \E i \in 1..Len(names) : SameIgnoringCase(skill.name, names[i])
\* the names asked for are the words of the name, one word each
SplitOf(names, name) ==
    /\ Len(name) > 1
    /\ Len(names) = Len(name)
    /\ \A i \in 1..Len(names) : names[i] = <<name[i]>>
\* sub is seq without some of its elements
RECURSIVE IsSubSeq(_, _)
IsSubSeq(sub, seq) ==
    IF sub = <<>> THEN TRUE
    ELSE IF seq = <<>> THEN FALSE
    ELSE IF sub[1] = seq[1] THEN IsSubSeq(Tail(sub), Tail(seq))
    ELSE IsSubSeq(sub, Tail(seq))
\* the skills returned are those of the list that are asked for
ReturnsTheAsked(skills, names, result) ==
    /\ IsSubSeq(result, skills)
    /\ \A i \in 1..Len(skills) :
          IsAsked(skills[i], names) <=> \E j \in 1..Len(result) : result[j] = skills[i]

\* C24 as stated: a skill is returned exactly when its name equals, case
\* aside, one name asked for; when the names asked for are the words of a
\* multi-word skill name the result is empty; no names, no result.
C24_AsStated ==
    FilterCalled =>
        LET a == lastCall.args[1]
            result == lastCall.outs[1]
        IN  /\ ReturnsTheAsked(a.skills, a.names, result)
            /\ (\E i \in 1..Len(a.skills) : SplitOf(a.names, a.skills[i].name)) => result = <<>>
            /\ a.names = <<>> => result = <<>>

\* C24 (amended): a skill is returned exactly when its name equals, case
\* aside, one name asked for; when the names asked for are the words of a
\* multi-word skill name that skill is not returned, and the result is
\* empty unless another skill's name is one of the words; no names, no
\* result.
C24_WholeToken ==
    FilterCalled =>
        LET a == lastCall.args[1]
            result == lastCall.outs[1]
        IN  /\ lastCall.excs[1] = "none"
            /\ ReturnsTheAsked(a.skills, a.names, result)
            /\ \A i \in 1..Len(a.skills) :
                  SplitOf(a.names, a.skills[i].name) =>
                      /\ \A j \in 1..Len(result) : result[j] # a.skills[i]
                      /\ (\A k \in 1..Len(a.skills) : Len(a.skills[k].name) > 1) => result = <<>>
            /\ a.names = <<>> => result = <<>>

\* C24 witness: Foo and bar were asked for, the two words of the skill
\* "Foo bar", and the skills hold that one and the skill bar: bar alone is
\* returned
C24_Witness ==
    /\ FilterCalled
    /\ lastCall.args[1].names = <<<<"Foo">>, <<"bar">>>>
    /\ lastCall.args[1].skills = <<Skill(<<"Foo", "bar">>, "source-1"), Skill(<<"bar">>, "source-2")>>
    /\ lastCall.outs[1] = <<Skill(<<"bar">>, "source-2")>>

(***************************************************************************)
(* Properties of WellKnownProvider.fetch_skill                             *)
(***************************************************************************)
WKFetchSkillCalled == FetchSkillCalled /\ lastFetch.provider = Some(wellknown_provider)

\* the entries of the index the server answered with: none when the index
\* is missing, unfetchable or empty
IndexEntriesOf(answer) ==
    IF /\ Arrived(answer)
       /\ answer.body.t = "object"
       /\ answer.body.v.skills # None
    THEN answer.body.v.skills[1] ELSE <<>>
\* the skill the URL names: its one segment after /.well-known/skills/
RequestedName(url) ==
    LET path == url.path
        n == Len(path)
    IN  IF n >= 3 /\ path[n - 2] = ".well-known" /\ path[n - 1] = "skills" /\ path[n] # ""
        THEN Some(path[n]) ELSE None
\* the fetch went on with the entry: its SKILL.md is the second request,
\* and a skill returned is the skill of that entry
PickedEntry(entry) ==
    /\ Len(lastFetch.requests) >= 2
    /\ lastFetch.requests[2] =
          Str(WKGetWellKnownBase(lastFetch.url)) \o "/" \o entry.name[1] \o "/SKILL.md"
    /\ lastFetch.result # None =>
          /\ lastFetch.result[1].install_name = entry.name[1]
          /\ lastFetch.result[1].index_entry = WellKnownSkillEntry(entry)
ReturnedNullAfterIndex ==
    /\ lastFetch.exc = "none"
    /\ lastFetch.result = None
    /\ Len(lastFetch.requests) = 1

\* C25: WellKnownProvider.fetch_skill(url) requests the index first; when
\* url names a skill it goes on with the first index entry of exactly that
\* name, and returns null when there is none; when url names no skill it
\* goes on with the first entry; with a missing, unfetchable or empty index
\* it returns null and requests no SKILL.md.
C25_PicksOneEntry ==
    WKFetchSkillCalled =>
        LET entries == IndexEntriesOf(lastFetch.net.index)
            asked == RequestedName(lastFetch.url)
            named == {i \in 1..Len(entries) : entries[i].name = asked}
        IN  /\ lastFetch.requests # <<>>
            /\ lastFetch.requests[1] = Str(WKGetWellKnownBase(lastFetch.url)) \o "/index.json"
            /\ entries = <<>> => ReturnedNullAfterIndex
            /\ (entries # <<>> /\ asked # None /\ named = {}) => ReturnedNullAfterIndex
            /\ (entries # <<>> /\ asked # None /\ named # {}) =>
                  PickedEntry(entries[CHOOSE i \in named : \A j \in named : i <= j])
            /\ (entries # <<>> /\ asked = None) => PickedEntry(entries[1])

(***************************************************************************)
(* Properties of the files map of fetch_skill_by_entry                     *)
(***************************************************************************)
\* the files the entry lists other than SKILL.md
ListedOthers(entry) == {entry.files.v[i] : i \in 1..Len(entry.files.v)} \ {"SKILL.md"}
\* the requests made for the URL
TimesRequested(requests, u) == Cardinality({r \in 1..Len(requests) : requests[r] = u})

\* C26: fetch_skill_by_entry returns a skill whenever SKILL.md arrives with
\* status 200, whatever the answers to the other files; its files map holds
\* the content under SKILL.md and, beside it, exactly the other listed
\* files that were answered with status 200, each with its text; SKILL.md
\* is requested once; install_name is the name of the entry.
C26_FilesMap ==
    (EntryCalled /\ ~UrlparseRaises(lastCall.args[1].url)) =>
        LET a == lastCall.args[1]
            out == lastCall.outs[1]
            others == ListedOthers(a.entry)
            base == Str(WKGetWellKnownBase(a.url)) \o "/" \o a.entry.name
        IN  /\ TimesRequested(out.requests, base \o "/SKILL.md") = 1
            /\ Arrived(a.net.doc) <=> out.result # None
            /\ out.result # None =>
                  LET skill == out.result[1]
                  IN  /\ lastCall.excs[1] = "none"
                      /\ skill.content = a.net.doc.body
                      /\ skill.files["SKILL.md"] = skill.content
                      /\ DOMAIN skill.files \ {"SKILL.md"} =
                            {f \in others : Arrived(a.net.file[f])}
                      /\ \A f \in DOMAIN skill.files \ {"SKILL.md"} :
                            skill.files[f] = a.net.file[f].body
                      /\ \A f \in others : TimesRequested(out.requests, base \o "/" \o f) >= 1
                      /\ skill.install_name = a.entry.name

\* C26 witness: the entry lists SKILL.md, ref.md and .hidden; ref.md fails
\* with a network error, .hidden arrives: the skill has the files SKILL.md
\* and .hidden
C26_Witness ==
    /\ EntryCalled
    /\ lastCall.args[1].entry.files.v = <<"ref.md", ".hidden">>
    /\ lastCall.outs[1].result # None
    /\ lastCall.args[1].net.file["ref.md"] = NetworkError
    /\ Arrived(lastCall.args[1].net.file[".hidden"])
    /\ DOMAIN lastCall.outs[1].result[1].files = {"SKILL.md", ".hidden"}

\* ---- remove_skill_from_lock ----

\* The name is recorded: the file is readable at the current version and its
\* skills object has the key
Recorded(f, n) == ReadableAtCurrent(f) /\ n \in DOMAIN SkillsOf(f)

\* The lock with the entry n taken out
WithoutEntry(lock, n) ==
    [lock EXCEPT !.skills = [k \in DOMAIN lock.skills \ {n} |-> lock.skills[k]]]

\* The call returned false, raised nothing and left the lock file as it was
ReturnedFalseUnwritten ==
    /\ last.exc = "none" /\ last.ret = FALSE
    /\ ~last.wrote /\ file = last.pre

\* The call returned true and the file now reads as the previous lock minus n
RemovedAndPersisted ==
    /\ last.exc = "none" /\ last.ret = TRUE /\ last.wrote
    /\ ReadSkillLock(last.pre).exc = "none"
    /\ ReadSkillLock(file) = Returned(WithoutEntry(ReadSkillLock(last.pre).lock, last.name))

\* C27: remove_skill_from_lock(n) returns true and persists the previous lock
\* minus the entry n when n is recorded; when n is not recorded, the lock file
\* missing, corrupt or stale included, it returns false and writes nothing.
C27_RemoveOrFalse ==
    last.op = "remove" =>
        IF Recorded(last.pre, last.name)
        THEN RemovedAndPersisted
        ELSE ReturnedFalseUnwritten

\* The part of C27 that the code keeps: the same, for every lock file that
\* read_skill_lock gets through without raising
C27_OnReadableFiles ==
    last.op = "remove" /\ ReadSkillLock(last.pre).exc = "none" =>
        IF Recorded(last.pre, last.name)
        THEN RemovedAndPersisted
        ELSE ReturnedFalseUnwritten

C27_RemovedReached ==
    /\ last.op = "remove" /\ Recorded(last.pre, last.name)
    /\ DOMAIN SkillsOf(last.pre) \ {last.name} # {}
    /\ RemovedAndPersisted

\* ---- provider selection ----

ProviderIds == {"huggingface", "mintlify", "well-known"}

\* The providers whose match accepts the URL
Matching(url) == {id \in ProviderIds : Match(Provider(id, 0), url).matches}

\* The registry with HuggingFace and Mintlify in any order, each other
\* provider where it was
Reorderings(providers) ==
    LET range == {providers[i] : i \in DOMAIN providers}
    IN  {q \in [DOMAIN providers -> range] :
            /\ {q[i] : i \in DOMAIN q} = range
            /\ \A i \in DOMAIN q :
                  providers[i].id \notin {"huggingface", "mintlify"} => q[i] = providers[i]}

IdOf(found) == IF found = None THEN "none" ELSE found[1].id

\* An http(s) link to a skill.md at huggingface.co under /spaces/
SpacesSkillMdLink(url) ==
    /\ url.scheme \in {"http://", "https://"}
    /\ HostOf(url) = "huggingface.co"
    /\ \E i \in 1..Len(url.path) - 1 : url.path[i] = "spaces"
    /\ url.path # <<>> /\ url.path[Len(url.path)] \in {"skill.md", "SKILL.MD", "SKILL.md"}

\* The URLs the claim says no provider takes
TakenByNone(url) ==
    \/ HostOf(url) \in {"github.com", "gitlab.com", "raw.githubusercontent.com"}
    \/ HostOf(url) = "huggingface.co" /\ ~SpacesSkillMdLink(url)

\* C28: at most one of the three providers matches a URL, so find_provider and
\* fetch_remote_skill select the same provider whichever of HuggingFace and
\* Mintlify was registered first; URLs on github.com, gitlab.com and
\* raw.githubusercontent.com, and huggingface.co URLs that are not Spaces
\* skill.md links, match no provider.
C28_OneProviderAnyOrder ==
    /\ lastCall.fn = "find_provider" =>
          LET url == lastCall.args[1]
          IN  /\ Cardinality(Matching(url)) <= 1
              /\ \A q \in Reorderings(registry) :
                    IdOf(RegistryFindProvider(q, url)) = IdOf(lastCall.outs[1])
              /\ TakenByNone(url) => Matching(url) = {} /\ lastCall.outs[1] = None
    /\ lastFetch.op = "fetch_remote_skill" =>
          LET url == lastFetch.url
          IN  /\ Cardinality(Matching(url)) <= 1
              /\ \A q \in Reorderings(registry) :
                    IdOf(FetchRemoteSkill(q, url, Offline).provider) = IdOf(lastFetch.provider)
              /\ TakenByNone(url) => Matching(url) = {} /\ lastFetch.provider = None

\* C28 witness: Mintlify registered before HuggingFace, and find_provider
\* on a Spaces skill.md link selects HuggingFace
C28_Witness ==
    /\ lastCall.fn = "find_provider"
    /\ Len(registry) >= 2
    /\ registry[1].id = "mintlify" /\ registry[2].id = "huggingface"
    /\ SpacesSkillMdLink(lastCall.args[1])
    /\ IdOf(lastCall.outs[1]) = "huggingface"

\* ---- write_skill_lock, then read_skill_lock ----

\* A lock of version at least 3 was written and then read
RoundTripped ==
    /\ lastCall.fn = "read_skill_lock"
    /\ lastCall.args[1].version >= 3

\* C29 as stated: write_skill_lock followed by read_skill_lock returns a lock
\* equal to the one written, for every SkillLockFile of version at least 3,
\* an entry with the empty skill_path and the empty last_selected_agents
\* included.
C29_ReadsWhatWasWritten ==
    RoundTripped => lastCall.excs[2] = "none" /\ lastCall.outs[2] = lastCall.args[1]

\* The written lock with what the file format cannot hold made null: the
\* empty skill_path of an entry and the empty last_selected_agents
EmptiesAsNull(lock) ==
    [lock EXCEPT
        !.skills = [n \in DOMAIN lock.skills |->
                       IF lock.skills[n].skill_path = Some("")
                       THEN [lock.skills[n] EXCEPT !.skill_path = None]
                       ELSE lock.skills[n]],
        !.last_selected_agents = IF @ = Some(<<>>) THEN None ELSE @]

\* C29 amended: write_skill_lock followed by read_skill_lock returns a lock
\* equal to the one written, for every SkillLockFile of version at least 3,
\* except that an entry whose skill_path is the empty string is read with a
\* null skill_path and an empty last_selected_agents is read as null.
C29_RoundTrip ==
    RoundTripped =>
        /\ lastCall.excs[2] = "none"
        /\ lastCall.outs[2] = EmptiesAsNull(lastCall.args[1])

\* C29 witness: a lock of version 4 with two entries, one with a skill_path
\* and one with the empty skill_path, the prompt dismissed and two agents
C29_Witness ==
    /\ RoundTripped
    /\ lastCall.args[1].version = 4
    /\ lastCall.args[1].dismissed.find_skills_prompt
    /\ lastCall.args[1].last_selected_agents = Some(<<"cursor", "claude-code">>)
    /\ \E a, b \in DOMAIN lastCall.args[1].skills :
          /\ lastCall.args[1].skills[a].skill_path = Some("")
          /\ lastCall.args[1].skills[b].skill_path = Some("skills/x/SKILL.md")
          /\ lastCall.outs[2].skills[a].skill_path = None
          /\ lastCall.outs[2].skills[b] = lastCall.args[1].skills[b]
    /\ lastCall.outs[2].last_selected_agents = lastCall.args[1].last_selected_agents

\* ---- run_update ----

\* The updates the service reported: the names in the updates list of a 200
\* answer, none when no answer of that kind was received
Reported(run) ==
    IF /\ run.answer.kind = "response"
       /\ run.answer.status_code = 200
       /\ run.answer.body.t = "object"
       /\ "updates" \in DOMAIN run.answer.body.v
    THEN run.answer.body.v["updates"].v
    ELSE <<>>

\* Those of them whose name the lock read at the start records, in the
\* order reported
ReportedInLock(run) ==
    LET Locked(n) == n \in DOMAIN run.lock.skills
    IN  SelectSeq(Reported(run), Locked)

Hashed(lock) == {n \in DOMAIN lock.skills : lock.skills[n].skill_folder_hash # ""}

TimesOutcome(run, raised) ==
    Cardinality({k \in 1..Len(run.calls) : (run.calls[k].exc # "none") = raised})

\* C30: run_update sends to the update service only the locked skills with a
\* non-empty skill_folder_hash (none: no request), then reinstalls in the
\* order reported exactly the reported updates whose name is in the lock read
\* at the start, each through run_add with the entry's source_url, that one
\* skill name, global scope and confirmations skipped; a reinstall that
\* raises is counted as failed and does not stop the others, so that
\* updated + failed is the number of reported updates that are in the lock.
C30_UpdateReinstallsReported ==
    lastCall.fn = "run_update" =>
        LET run == lastCall
            wanted == ReportedInLock(run)
        IN  /\ (run.posted = None) = (Hashed(run.lock) = {})
            /\ run.posted = None => run.answer = Unasked /\ run.calls = <<>>
            /\ run.posted # None =>
                  /\ DOMAIN run.posted[1] = Hashed(run.lock)
                  /\ \A n \in Hashed(run.lock) :
                        /\ run.posted[1][n].name = n
                        /\ run.posted[1][n].skillFolderHash = run.lock.skills[n].skill_folder_hash
            /\ Len(run.calls) <= Len(wanted)
            /\ \A k \in 1..Len(run.calls) :
                  run.calls[k].args =
                      [source |-> run.lock.skills[wanted[k]].source_url,
                       skill_names |-> <<wanted[k]>>, is_global |-> TRUE, yes |-> TRUE]
            /\ run.success_count = TimesOutcome(run, FALSE)
            /\ run.fail_count = TimesOutcome(run, TRUE)
            /\ run.pc = "done" =>
                  /\ Len(run.calls) = Len(wanted)
                  /\ run.success_count + run.fail_count = Len(wanted)

\* C30 witness: three updates reported, the second for a skill the lock does
\* not hold; the first reinstall raised, and the third was made and returned
C30_Witness ==
    /\ lastCall.fn = "run_update"
    /\ lastCall.pc = "done"
    /\ Len(Reported(lastCall)) = 3
    /\ Reported(lastCall)[2] \notin DOMAIN lastCall.lock.skills
    /\ Hashed(lastCall.lock) # DOMAIN lastCall.lock.skills
    /\ Len(lastCall.calls) = 2
    /\ lastCall.calls[1].exc = "Exception"
    /\ lastCall.calls[2].exc = "none"
    /\ lastCall.calls[1].args.skill_names # lastCall.calls[2].args.skill_names
    /\ lastCall.success_count = 1 /\ lastCall.fail_count = 1

====
